---- MODULE Spec2Model ----
(***************************************************************************)
(* A model of the changelog engine: the tokenizer (markdown/tokens.rs),    *)
(* the tree builder and renderer (markdown/ast.rs) and the Changelog       *)
(* operations (changelog.rs).  A string is a sequence of one-character     *)
(* strings, so that splitting, trimming, slicing, prefix tests and         *)
(* substring replacement are computed the way the code computes them.      *)
(***************************************************************************)
EXTENDS Integers, Sequences, FiniteSets, TLC

VARIABLES
    file,    \* the text of the changelog file on disk
    root,    \* Changelog.root, the in-memory tree
    pre,     \* the value of root when the last operation started
    op,      \* the last operation and its arguments
    out,     \* how the last operation ended: "ok", "err" or "panic"
    res,     \* the value the last operation returned
    hist,    \* the mutating operations called so far, in call order
    input,   \* the text the file held at the start, as lines and separators
    initial, \* the tree Changelog::new built from that text
    package_version  \* PackageJSON.version, the version of the package

vars == <<file, root, pre, op, out, res, hist, input, initial, package_version>>

(***************************************************************************)
(* Bounds of the model.                                                    *)
(***************************************************************************)
MaxOps == 2
MaxLines == 3

(***************************************************************************)
(* Strings.                                                                *)
(***************************************************************************)
NL == "\n"
SP == " "

UpperCase == <<"A", "B", "C", "D", "E", "F", "G", "H", "I", "J", "K", "L", "M", "N", "O", "P", "Q", "R", "S", "T", "U", "V", "W", "X", "Y", "Z">>
LowerCase == <<"a", "b", "c", "d", "e", "f", "g", "h", "i", "j", "k", "l", "m", "n", "o", "p", "q", "r", "s", "t", "u", "v", "w", "x", "y", "z">>

\* char::to_lowercase / the per-byte folding of eq_ignore_ascii_case
LowerChar(c) ==
    IF \E i \in 1..Len(UpperCase) : UpperCase[i] = c
    THEN LowerCase[CHOOSE i \in 1..Len(UpperCase) : UpperCase[i] = c]
    ELSE c

\* str::to_lowercase
ToLower(s) == [i \in 1..Len(s) |-> LowerChar(s[i])]

\* str::eq_ignore_ascii_case
EqIgnoreCase(a, b) == Len(a) = Len(b) /\ ToLower(a) = ToLower(b)

\* str::starts_with
StartsWith(s, p) == Len(p) <= Len(s) /\ SubSeq(s, 1, Len(p)) = p

\* s[n..] for a byte offset n (all characters of the model are one byte)
Drop(s, n) == SubSeq(s, n + 1, Len(s))

\* char::is_whitespace
IsWhitespace(c) == c \in {SP, NL, "\t"}

\* the number of leading characters of s that are whitespace
LeadingWhitespace(s) ==
    LET stops == {i \in 1..Len(s) : ~IsWhitespace(s[i])}
    IN  IF stops = {} THEN Len(s)
        ELSE (CHOOSE i \in stops : \A j \in stops : i <= j) - 1

\* str::trim_start
TrimStart(s) == Drop(s, LeadingWhitespace(s))

\* str::trim
Trim(s) ==
    LET t == TrimStart(s)
        keeps == {i \in 1..Len(t) : ~IsWhitespace(t[i])}
    IN  IF keeps = {} THEN <<>>
        ELSE SubSeq(t, 1, CHOOSE i \in keeps : \A j \in keeps : j <= i)

\* the first position >= from at which pat occurs in s, 0 when there is none
IndexOfFrom(s, pat, from) ==
    LET hits == {i \in from..(Len(s) - Len(pat) + 1) : SubSeq(s, i, i + Len(pat) - 1) = pat}
    IN  IF hits = {} THEN 0 ELSE CHOOSE i \in hits : \A j \in hits : i <= j

\* str::split(pat): the pieces between the non-overlapping occurrences of
\* pat, found left to right
RECURSIVE Split(_, _)
Split(s, pat) ==
    LET i == IndexOfFrom(s, pat, 1)
    IN  IF i = 0 THEN <<s>>
        ELSE <<SubSeq(s, 1, i - 1)>> \o Split(Drop(s, i + Len(pat) - 1), pat)

\* str::lines: split on "\n"; a trailing newline does not open a last,
\* empty line
Lines(s) ==
    LET parts == Split(s, <<NL>>)
    IN  IF parts[Len(parts)] = <<>> THEN SubSeq(parts, 1, Len(parts) - 1) ELSE parts

\* str::replace(from, to): every non-overlapping occurrence, left to right
\* (an empty pattern matches before every character and at the end)
RECURSIVE Replace(_, _, _)
Replace(s, from, to) ==
    IF from = <<>>
    THEN IF s = <<>> THEN to ELSE to \o <<Head(s)>> \o Replace(Tail(s), from, to)
    ELSE LET i == IndexOfFrom(s, from, 1)
         IN  IF i = 0 THEN s
             ELSE SubSeq(s, 1, i - 1) \o to \o Replace(Drop(s, i + Len(from) - 1), from, to)

\* " ".repeat(n)
Spaces(n) == [i \in 1..n |-> SP]

\* the concatenation of the strings of a sequence
RECURSIVE Concat(_)
Concat(ss) == IF ss = <<>> THEN <<>> ELSE Head(ss) \o Concat(Tail(ss))

\* [String]::join(sep)
RECURSIVE Join(_, _)
Join(ss, sep) ==
    IF ss = <<>> THEN <<>>
    ELSE IF Len(ss) = 1 THEN ss[1]
    ELSE ss[1] \o sep \o Join(Tail(ss), sep)

\* the decimal digits of an unsigned integer, as u64's Display writes them
DigitChars == <<"0", "1", "2", "3", "4", "5", "6", "7", "8", "9">>
RECURSIVE Decimal(_)
Decimal(n) ==
    IF n < 10 THEN <<DigitChars[n + 1]>>
    ELSE Decimal(n \div 10) \o <<DigitChars[(n % 10) + 1]>>

(***************************************************************************)
(* Tokens (markdown/tokens.rs).                                            *)
(***************************************************************************)
H1(s) == [t |-> "H1", text |-> s]
H2(s) == [t |-> "H2", text |-> s]
H3(s) == [t |-> "H3", text |-> s]
Paragraph(s) == [t |-> "Paragraph", text |-> s]
UnorderedList == [t |-> "UnorderedList"]
ListItem(s, n) == [t |-> "ListItem", text |-> s, indent |-> n]
Reference(name, link) == [t |-> "Reference", name |-> name, link |-> link]
BlankLine == [t |-> "BlankLine"]

\* Option::None as a node's data
None == [t |-> "None"]

\* the outcome of a line on which lex panics (unwrap of None, slice out of range)
LexPanic == [t |-> "Panic"]

IsHeading(tok) == tok.t \in {"H1", "H2", "H3"}

\* the closure lex maps over the lines of a group that starts with #, - or [
LexLine(line) ==
    LET spaces == LeadingWhitespace(line)
        l == TrimStart(line)
    IN  IF StartsWith(l, <<"#", " ">>) THEN H1(Drop(l, 2))
        ELSE IF StartsWith(l, <<"#", "#", " ">>) THEN H2(Drop(l, 3))
        ELSE IF StartsWith(l, <<"#", "#", "#", " ">>) THEN H3(Drop(l, 4))
        ELSE IF StartsWith(l, <<"-", " ">>) THEN ListItem(Drop(l, 2), spaces)
        ELSE IF StartsWith(l, <<"[">>)
             THEN LET parts == Split(l, <<":", " ">>)
                  IN  IF Len(parts) < 2 \/ Len(parts[1]) < 2 THEN LexPanic
                      ELSE Reference(SubSeq(parts[1], 2, Len(parts[1]) - 1), parts[2])
        ELSE Paragraph(l)

\* the closure lex flat-maps over the groups: the tokens of one group
LexGroup(group) ==
    IF Trim(group) = <<>> THEN <<LexPanic>>
    ELSE IF Trim(group)[1] \in {"#", "-", "["}
         THEN LET ls == Lines(group) IN [i \in 1..Len(ls) |-> LexLine(ls[i])]
         ELSE <<Paragraph(group)>>

\* MarkdownToken::lex
Lex(contents) ==
    LET parts == Split(contents, <<NL, NL>>)
        groups == SelectSeq(parts, LAMBDA g : g # <<>>)
    IN  Concat([i \in 1..Len(groups) |-> LexGroup(groups[i])])

\* a Display that writes every list item at indent 0: a round trip through
\* it loses the nesting of the items
TokenToStringFlat(tok) ==
    CASE tok.t = "H1" -> <<"#", " ">> \o tok.text \o <<NL>>
      [] tok.t = "H2" -> <<"#", "#", " ">> \o tok.text \o <<NL>>
      [] tok.t = "H3" -> <<"#", "#", "#", " ">> \o tok.text \o <<NL>>
      [] tok.t = "Paragraph" -> tok.text \o <<NL>>
      [] tok.t = "UnorderedList" -> <<>>
      [] tok.t = "ListItem" -> <<"-", " ">> \o tok.text
      [] tok.t = "Reference" -> <<"[">> \o tok.name \o <<"]", ":", " ">> \o tok.link
      [] tok.t = "BlankLine" -> <<>>

\* Display for MarkdownToken
TokenToString(tok) ==
    CASE tok.t = "H1" -> <<"#", " ">> \o tok.text \o <<NL>>
      [] tok.t = "H2" -> <<"#", "#", " ">> \o tok.text \o <<NL>>
      [] tok.t = "H3" -> <<"#", "#", "#", " ">> \o tok.text \o <<NL>>
      [] tok.t = "Paragraph" -> tok.text \o <<NL>>
      [] tok.t = "UnorderedList" -> <<>>
      [] tok.t = "ListItem" -> Spaces(tok.indent) \o <<"-", " ">> \o tok.text
      [] tok.t = "Reference" -> <<"[">> \o tok.name \o <<"]", ":", " ">> \o tok.link
      [] tok.t = "BlankLine" -> <<>>

(***************************************************************************)
(* Nodes (markdown/ast.rs).                                                *)
(***************************************************************************)
\* Node::new
Node(data, children) == [data |-> data, children |-> children]

\* Node::from_token
FromToken(tok) == Node(tok, <<>>)

\* Node::add_child
AddChild(node, child) == [node EXCEPT !.children = Append(@, child)]

\* Vec::insert panics when the index is beyond the length
CanInsertAt(node, index) == index <= Len(node.children)

\* Node::add_child_at (index counted from 0, as in the code)
AddChildAt(node, index, child) ==
    [node EXCEPT !.children =
        SubSeq(@, 1, index) \o <<child>> \o SubSeq(@, index + 1, Len(@))]

\* Node::flatten
RECURSIVE Flatten(_)
Flatten(node) ==
    LET below == Concat([i \in 1..Len(node.children) |-> Flatten(node.children[i])])
    IN  IF node.data = UnorderedList THEN below \o <<BlankLine>>
        ELSE IF node.data # None THEN <<node.data>> \o below
        ELSE below

\* Display for Node
NodeToString(node) ==
    LET toks == Flatten(node)
    IN  Join([i \in 1..Len(toks) |-> TokenToString(toks[i])], <<NL>>)

\* the number of ListItem tokens at the head of a token sequence
RECURSIVE ItemRun(_)
ItemRun(tokens) ==
    IF tokens # <<>> /\ Head(tokens).t = "ListItem" THEN 1 + ItemRun(Tail(tokens)) ELSE 0

\* the match on (parent, tokens.peek()) that ends the children of a heading
ClosesParent(parent, tokens) ==
    /\ parent # None
    /\ tokens # <<>>
    /\ LET next == Head(tokens).t
       IN  \/ parent.t = "H1" /\ next = "H1"
           \/ parent.t = "H2" /\ next \in {"H2", "H1"}
           \/ parent.t = "H3" /\ next \in {"H3", "H2", "H1"}
           \/ next = "Reference"

\* parse: the nodes built from the head of the token sequence and the
\* tokens left for the caller; acc is the local vector `root`
RECURSIVE ParseFrom(_, _, _)
ParseFrom(tokens, parent, acc) ==
    IF tokens = <<>> THEN [nodes |-> acc, rest |-> <<>>]
    ELSE LET token == Head(tokens)
             sub == ParseFrom(Tail(tokens), token, <<>>)
             n == 1 + ItemRun(Tail(tokens))
             node == IF IsHeading(token) THEN Node(token, sub.nodes)
                     ELSE IF token.t = "ListItem"
                          THEN Node(UnorderedList,
                                    [i \in 1..n |-> FromToken(tokens[i])])
                          ELSE FromToken(token)
             rest == IF IsHeading(token) THEN sub.rest
                     ELSE IF token.t = "ListItem" THEN Drop(tokens, n)
                     ELSE Tail(tokens)
         IN  IF ClosesParent(parent, rest)
             THEN [nodes |-> Append(acc, node), rest |-> rest]
             ELSE ParseFrom(rest, parent, Append(acc, node))

\* Node::empty, the tree of a changelog whose file does not exist
EmptyNode == Node(None, <<>>)

\* whether lexing a text panics
LexPanics(s) ==
    LET tokens == Lex(s)
    IN  \E i \in 1..Len(tokens) : tokens[i] = LexPanic

\* Node::from_str
FromStr(s) == Node(None, ParseFrom(Lex(s), None, <<>>).nodes)

(***************************************************************************)
(* Texts given as lines: seps[i] is the number of newlines between line i  *)
(* and line i + 1.                                                         *)
(***************************************************************************)
RECURSIVE TextFrom(_, _, _)
TextFrom(lines, seps, i) ==
    IF i > Len(lines) THEN <<>>
    ELSE lines[i]
         \o (IF i < Len(lines) THEN [k \in 1..seps[i] |-> NL] ELSE <<>>)
         \o TextFrom(lines, seps, i + 1)

TextOf(doc) == TextFrom(doc.lines, doc.seps, 1)

\* a text without the newlines at its end
RECURSIVE StripNL(_)
StripNL(s) ==
    IF s # <<>> /\ s[Len(s)] = NL THEN StripNL(SubSeq(s, 1, Len(s) - 1)) ELSE s

(***************************************************************************)
(* Loading and persisting.                                                 *)
(***************************************************************************)
\* Changelog::persist: the text written to the file
Persisted(node) == NodeToString(node) \o <<NL>>

\* Changelog::new on an existing file: read the file and parse it
New ==
    /\ out = "ok"
    /\ op.kind \in {"start", "persist"}
    /\ pre' = root
    /\ op' = [kind |-> "new"]
    /\ IF LexPanics(file)
       THEN /\ out' = "panic"
            /\ root' = root
       ELSE /\ out' = "ok"
            /\ root' = FromStr(file)
    /\ res' = None
    /\ UNCHANGED <<file, input, hist, package_version>>
    /\ initial' = IF op.kind = "start" THEN root' ELSE initial

\* Changelog::persist
Persist ==
    /\ out = "ok"
    /\ op.kind \notin {"start", "persist"}
    /\ pre' = root
    /\ op' = [kind |-> "persist"]
    /\ file' = Persisted(root)
    /\ out' = "ok"
    /\ res' = None
    /\ UNCHANGED <<root, input, hist, initial, package_version>>

(***************************************************************************)
(* The round trip: texts of up to MaxLines lines are loaded and persisted. *)
(***************************************************************************)
RTLines ==
    { <<"#", " ", "T">>, <<"#", "#", "#", " ", "C">>, <<"-", " ", "a">>, <<" ", " ", "-", " ", "b">>, <<"T", "e", "x", "t">>, <<"[", "v", "]", ":", " ", "u">>, <<"[", "v", "]", " ", "u">> }

RTInputs ==
    UNION { { [lines |-> ls, seps |-> ss] :
                ls \in [1..n -> RTLines], ss \in [1..(n - 1) -> {1, 2}] } :
            n \in 1..MaxLines }

InitRT ==
    /\ input \in RTInputs
    /\ file = TextOf(input)
    /\ root = EmptyNode
    /\ pre = EmptyNode
    /\ op = [kind |-> "start"]
    /\ out = "ok"
    /\ res = None
    /\ hist = <<>>
    /\ initial = EmptyNode
    /\ package_version = None

NextRT == New \/ Persist

SpecRT == InitRT /\ [][NextRT]_vars

(***************************************************************************)
(* Searching the tree.  A predicate (a closure of the code) is a record    *)
(* naming the closure and holding the values it captures.                  *)
(***************************************************************************)
\* a path is the sequence of child positions leading to a node; NoPath
\* stands for Option::None
NoPath == <<0>>

RECURSIVE NodeAt(_, _)
NodeAt(node, path) ==
    IF path = <<>> THEN node ELSE NodeAt(node.children[Head(path)], Tail(path))

\* the tree with the node at path replaced (a write through the &mut Node
\* that find_node_mut returned)
RECURSIVE ReplaceAt(_, _, _)
ReplaceAt(node, path, new) ==
    IF path = <<>> THEN new
    ELSE [node EXCEPT !.children[Head(path)] = ReplaceAt(@, Tail(path), new)]

\* Option<String>: None and Some(s)
NoName == [is_some |-> FALSE]
Name(s) == [is_some |-> TRUE, text |-> s]

\* SemVer and PackageJSON values (package.rs)
SemVer(major, minor, patch, pre_release) ==
    [major |-> major, minor |-> minor, patch |-> patch, pre_release |-> pre_release]

\* the three numbers alone
SemVerToStringBare(v) ==
    Decimal(v.major) \o <<".">> \o Decimal(v.minor) \o <<".">> \o Decimal(v.patch)

\* Display for SemVer
SemVerToString(v) ==
    Decimal(v.major) \o <<".">> \o Decimal(v.minor) \o <<".">> \o Decimal(v.patch)
    \o (IF v.pre_release.is_some THEN <<"-">> \o v.pre_release.text ELSE <<>>)

\* scope: Option<&PackageJSON>
NoScope == [is_some |-> FALSE]
Scope(name, is_root) == [is_some |-> TRUE, name |-> name, is_root |-> is_root]

\* const UNRELEASED_HEADING of changelog.rs
UNRELEASED_HEADING == <<"U", "n", "r", "e", "l", "e", "a", "s", "e", "d">>

\* Changelog::unreleased_heading
UnreleasedHeading(scope) ==
    IF scope.is_some
    THEN <<"[">> \o UNRELEASED_HEADING \o <<" ", "-", " ">> \o scope.name \o <<"]">>
    ELSE <<"[">> \o UNRELEASED_HEADING \o <<"]">>

\* the closures of changelog.rs
IsUnreleasedH2(heading) == [k |-> "unreleased_h2", heading |-> heading]
IsSectionH3(name) == [k |-> "section_h3", name |-> name]
IsUnorderedList == [k |-> "unordered_list"]
IsH3 == [k |-> "h3"]
IsReleasedReference == [k |-> "released_reference"]
IsUnreleasedReference(label) == [k |-> "unreleased_reference", label |-> label]
IsSelected(name, scope) == [k |-> "selected", name |-> name, scope |-> scope]
IsReference == [k |-> "reference"]

\* name.to_lowercase().starts_with("unreleased") negated, on a Reference
ReleasedLabel(tok) ==
    tok.t = "Reference" /\ ~StartsWith(ToLower(tok.name), <<"u", "n", "r", "e", "l", "e", "a", "s", "e", "d">>)

\* a closure that, with an absent selector, takes every level-2 heading, the
\* Unreleased one with no level-3 heading below it included
SelectedH2AnyUnreleased(node, name, scope) ==
    /\ node.data.t = "H2"
    /\ IF name.is_some
       THEN IF EqIgnoreCase(name.text, <<"l", "a", "t", "e", "s", "t">>)
            THEN ~EqIgnoreCase(node.data.text, UnreleasedHeading(scope))
            ELSE IF scope.is_some /\ ~scope.is_root
                 THEN StartsWith(ToLower(node.data.text),
                          <<"[">> \o scope.name \o <<"@", "v">> \o ToLower(name.text) \o <<"]">>)
                 ELSE StartsWith(ToLower(node.data.text),
                          <<"[">> \o ToLower(name.text) \o <<"]">>)
       ELSE TRUE

RECURSIVE Matches(_, _), FindPath(_, _), FindBelow(_, _, _)

\* the closure get_contents_of_section_scope hands to find_node
SelectedH2(node, name, scope) ==
    /\ node.data.t = "H2"
    /\ IF name.is_some
       THEN IF EqIgnoreCase(name.text, <<"l", "a", "t", "e", "s", "t">>)
            THEN ~EqIgnoreCase(node.data.text, UnreleasedHeading(scope))
            ELSE IF scope.is_some /\ ~scope.is_root
                 THEN StartsWith(ToLower(node.data.text),
                          <<"[">> \o scope.name \o <<"@", "v">> \o ToLower(name.text) \o <<"]">>)
                 ELSE StartsWith(ToLower(node.data.text),
                          <<"[">> \o ToLower(name.text) \o <<"]">>)
       ELSE IF EqIgnoreCase(node.data.text, UnreleasedHeading(scope))
            THEN FindPath(node, IsH3) # NoPath
            ELSE TRUE

\* whether a closure holds of a node
Matches(p, node) ==
    CASE p.k = "unreleased_h2" ->
            node.data.t = "H2" /\ EqIgnoreCase(node.data.text, p.heading)
      [] p.k = "section_h3" ->
            node.data.t = "H3" /\ EqIgnoreCase(node.data.text, p.name)
      [] p.k = "unordered_list" -> node.data = UnorderedList
      [] p.k = "h3" -> node.data.t = "H3"
      [] p.k = "released_reference" -> ReleasedLabel(node.data)
      [] p.k = "unreleased_reference" ->
            node.data.t = "Reference" /\ EqIgnoreCase(node.data.name, p.label)
      [] p.k = "selected" -> SelectedH2(node, p.name, p.scope)
      [] p.k = "reference" -> node.data.t = "Reference"

\* Node::find_node and Node::find_node_mut: the path of the first node in
\* pre-order of which the closure holds
FindPath(node, p) ==
    IF Matches(p, node) THEN <<>> ELSE FindBelow(node, p, 1)

\* the loop of find_node over the children, from child i on
FindBelow(node, p, i) ==
    IF i > Len(node.children) THEN NoPath
    ELSE LET r == FindPath(node.children[i], p)
         IN  IF r # NoPath THEN <<i>> \o r ELSE FindBelow(node, p, i + 1)

\* Iterator::position over a node's children (counted from 1; 0 for None)
Position(children, p) ==
    LET hits == {i \in 1..Len(children) : Matches(p, children[i])}
    IN  IF hits = {} THEN 0 ELSE CHOOSE i \in hits : \A j \in hits : i <= j

\* Vec::remove
RemoveAt(children, i) == SubSeq(children, 1, i - 1) \o SubSeq(children, i + 1, Len(children))

\* Node::rename_heading
RenameHeading(node, text) ==
    IF IsHeading(node.data) THEN [node EXCEPT !.data.text = text] ELSE node

\* the placeholder of an empty Unreleased section
NOTHING_YET == <<"N", "o", "t", "h", "i", "n", "g", " ", "y", "e", "t", "!">>

\* Changelog::find_latest_version: the label, or None
FindLatestVersion(tree) ==
    LET path == FindPath(tree, IsReleasedReference)
    IN  IF path = NoPath THEN NoName ELSE Name(NodeAt(tree, path).data.name)

(***************************************************************************)
(* The operations of Changelog (changelog.rs).  Each yields the tree it    *)
(* leaves in memory and how it ended.                                      *)
(***************************************************************************)
Outcome(tree, how) == [root |-> tree, out |-> how]

\* the new list item of add_list_item_to_section_scope
NewItem(item) == FromToken(ListItem(item, 0))

\* a placeholder search that removes nothing
KeepNothingYet(unreleased) == unreleased

\* the Unreleased node after the placeholder search of
\* add_list_item_to_section_scope: its first child that is a list is removed
WithoutNothingYet(unreleased) ==
    LET nothing_yet_ul == Position(unreleased.children, IsUnorderedList)
    IN  IF nothing_yet_ul # 0
        THEN [unreleased EXCEPT !.children = RemoveAt(@, nothing_yet_ul)]
        ELSE unreleased

\* the Unreleased node with the item added under the section
WithItem(unreleased, section_name, item) ==
    LET section == FindPath(unreleased, IsSectionH3(section_name))
        ul == FindPath(NodeAt(unreleased, section), IsUnorderedList)
    IN  IF section # NoPath
        THEN IF ul # NoPath
             THEN ReplaceAt(unreleased, section \o ul,
                      AddChild(NodeAt(unreleased, section \o ul), NewItem(item)))
             ELSE ReplaceAt(unreleased, section,
                      AddChild(NodeAt(unreleased, section),
                               AddChild(FromToken(UnorderedList), NewItem(item))))
        ELSE AddChild(unreleased,
                 AddChild(FromToken(H3(section_name)),
                          AddChild(FromToken(UnorderedList), NewItem(item))))

\* an insertion that puts the section after the last child of the root's
\* first child instead of at index 2
InsertSectionLast(tree, section) ==
    IF tree.children = <<>> THEN Outcome(tree, "panic")
    ELSE IF ~CanInsertAt(tree.children[1], 2) THEN Outcome(tree, "panic")
    ELSE Outcome(ReplaceAt(tree, <<1>>, AddChild(tree.children[1], section)), "ok")

\* root.children.get_mut(0).expect(..).add_child_at(2, section): panics when
\* the root has no child and when its first child has fewer than 2 children
InsertSection(tree, section) ==
    IF tree.children = <<>> THEN Outcome(tree, "panic")
    ELSE IF ~CanInsertAt(tree.children[1], 2) THEN Outcome(tree, "panic")
    ELSE Outcome(ReplaceAt(tree, <<1>>, AddChildAt(tree.children[1], 2, section)), "ok")

\* Changelog::add_list_item_to_section_scope
AddListItemToSectionScope(tree, section_name, item, scope) ==
    LET unreleased == FindPath(tree, IsUnreleasedH2(UnreleasedHeading(scope)))
    IN  IF unreleased # NoPath
        THEN Outcome(ReplaceAt(tree, unreleased,
                         WithItem(WithoutNothingYet(NodeAt(tree, unreleased)),
                                  section_name, item)),
                     "ok")
        ELSE InsertSection(tree,
                 AddChild(FromToken(H2(UnreleasedHeading(scope))),
                          AddChild(FromToken(H3(section_name)),
                                   AddChild(FromToken(UnorderedList), NewItem(item)))))

\* Changelog::add_list_item_to_section with edit = false
AddListItemToSection(tree, section_name, item, scope) ==
    AddListItemToSectionScope(tree, section_name, item, NoScope)

\* a lookup that returns the section with its heading
GetContentsWithHeading(tree, name, scope) ==
    LET node == FindPath(tree, IsSelected(name, scope))
    IN  IF node # NoPath THEN NodeAt(tree, node) ELSE None

\* Changelog::get_contents_of_section_scope: the copy without its heading,
\* or None
GetContentsOfSectionScope(tree, name, scope) ==
    LET node == FindPath(tree, IsSelected(name, scope))
    IN  IF node # NoPath THEN [NodeAt(tree, node) EXCEPT !.data = None] ELSE None

\* the heading release gives the section: format!("[{}] - {}", version, date)
ReleasedHeading(version, date) ==
    <<"[">> \o SemVerToString(version) \o <<"]", " ", "-", " ">> \o date

\* a fresh Unreleased section whose list has no item
NewUnreleasedEmpty(heading) ==
    AddChild(FromToken(H2(heading)), FromToken(UnorderedList))

\* the fresh Unreleased section release inserts
NewUnreleased(heading) ==
    AddChild(FromToken(H2(heading)),
             AddChild(FromToken(UnorderedList), FromToken(ListItem(NOTHING_YET, 0))))

\* a tag without the v prefix
VersionTagBare(version, scope) ==
    IF scope.is_some /\ ~scope.is_root
    THEN scope.name \o <<"@">> \o SemVerToString(version)
    ELSE SemVerToString(version)

\* the tag release puts in place of HEAD
VersionTag(version, scope) ==
    IF scope.is_some /\ ~scope.is_root
    THEN scope.name \o <<"@", "v">> \o SemVerToString(version)
    ELSE <<"v">> \o SemVerToString(version)

\* an update of the references that puts the new one after all the others
UpdateReferencesAppend(tree, reference, old_version, version, scope) ==
    LET tok == NodeAt(tree, reference).data
        updated_link == Replace(tok.link, old_version, SemVerToString(version))
        new_link == Replace(tok.link, <<"H", "E", "A", "D">>, VersionTag(version, scope))
        updated == ReplaceAt(tree, reference,
                       [NodeAt(tree, reference) EXCEPT !.data = Reference(tok.name, updated_link)])
        new_version_reference == FromToken(Reference(SemVerToString(version), new_link))
    IN  AddChild(updated, new_version_reference)

\* release, "Update references at the bottom", once the latest version and
\* the Unreleased reference are found
UpdateReferences(tree, reference, old_version, version, scope) ==
    LET tok == NodeAt(tree, reference).data
        updated_link == Replace(tok.link, old_version, SemVerToString(version))
        new_link == Replace(tok.link, <<"H", "E", "A", "D">>, VersionTag(version, scope))
        updated == ReplaceAt(tree, reference,
                       [NodeAt(tree, reference) EXCEPT !.data = Reference(tok.name, updated_link)])
        new_version_reference == FromToken(Reference(SemVerToString(version), new_link))
        idx == Position(updated.children, IsReleasedReference)
    IN  IF idx # 0 THEN AddChildAt(updated, idx - 1, new_version_reference)
        ELSE AddChild(updated, new_version_reference)

\* Changelog::release up to its call of persist: "ok" when persist is reached
ReleaseTree(tree, version, scope, date) ==
    LET unreleased_heading == UnreleasedHeading(NoScope)
        unreleased == FindPath(tree, IsUnreleasedH2(unreleased_heading))
        renamed == ReplaceAt(tree, unreleased,
                       RenameHeading(NodeAt(tree, unreleased), ReleasedHeading(version, date)))
        inserted == InsertSection(renamed, NewUnreleased(unreleased_heading))
        old_version == FindLatestVersion(inserted.root)
        reference == FindPath(inserted.root,
                         IsUnreleasedReference(SubSeq(unreleased_heading, 2,
                                                      Len(unreleased_heading) - 1)))
    IN  IF unreleased = NoPath THEN Outcome(tree, "ok")
        ELSE IF inserted.out = "panic" THEN Outcome(renamed, "panic")
        ELSE IF ~old_version.is_some THEN Outcome(inserted.root, "err")
        ELSE IF reference = NoPath THEN Outcome(inserted.root, "ok")
        ELSE Outcome(UpdateReferences(inserted.root, reference, old_version.text,
                                      version, scope), "ok")

(***************************************************************************)
(* The changelog files the program starts from.                            *)
(***************************************************************************)
TitleBlock == << <<"#", " ", "C", "h", "a", "n", "g", "e", "l", "o", "g">> >>
DescriptionBlock == << <<"I", "n", "t", "r", "o", ".">> >>
UnreleasedBlock == << <<"#", "#", " ", "[", "U", "n", "r", "e", "l", "e", "a", "s", "e", "d", "]">> >>
NothingYetBlock == << <<"-", " ", "N", "o", "t", "h", "i", "n", "g", " ", "y", "e", "t", "!">> >>
KeepBlock == << <<"-", " ", "K", "e", "e", "p">> >>
AddedBlocks == << << <<"#", "#", "#", " ", "A", "d", "d", "e", "d">> >>, << <<"-", " ", "O", "n", "e">> >> >>
FixedBlocks == << << <<"#", "#", "#", " ", "F", "i", "x", "e", "d">> >>, << <<"-", " ", "T", "w", "o">> >> >>
DatedBlocks ==
    << << <<"#", "#", " ", "[", "1", ".", "1", ".", "0", "]", " ", "-", " ", "2", "0", "2", "4", "-", "0", "1", "-", "0", "1">> >>, << <<"#", "#", "#", " ", "A", "d", "d", "e", "d">> >>, << <<"-", " ", "E", "v", "e", "r", "y", "t", "h", "i", "n", "g", "!">> >> >>
UnreleasedLine == <<"[", "u", "n", "r", "e", "l", "e", "a", "s", "e", "d", "]", ":", " ", "h", "t", "t", "p", "s", ":", "/", "/", "g", "i", "t", "h", "u", "b", ".", "c", "o", "m", "/", "o", "/", "r", "/", "c", "o", "m", "p", "a", "r", "e", "/", "v", "1", ".", "1", ".", "0", ".", ".", ".", "H", "E", "A", "D">>
ReleasedLine == <<"[", "1", ".", "1", ".", "0", "]", ":", " ", "h", "t", "t", "p", "s", ":", "/", "/", "g", "i", "t", "h", "u", "b", ".", "c", "o", "m", "/", "o", "/", "r", "/", "r", "e", "l", "e", "a", "s", "e", "s", "/", "t", "a", "g", "/", "v", "1", ".", "1", ".", "0">>

\* a shape names the blocks of a file; blocks are separated by a blank
\* line, the lines of a block by a newline
BlocksOf(shape) ==
    LET unrel == CASE shape.unrel = "none" -> <<>>
                   [] shape.unrel = "placeholder" -> <<UnreleasedBlock, NothingYetBlock>>
                   [] shape.unrel = "list" -> <<UnreleasedBlock, KeepBlock>>
                   [] shape.unrel = "added" -> <<UnreleasedBlock>> \o AddedBlocks
                   [] shape.unrel = "two" -> <<UnreleasedBlock>> \o AddedBlocks \o FixedBlocks
        refs == CASE shape.refs = "none" -> <<>>
                  [] shape.refs = "both" -> << <<UnreleasedLine, ReleasedLine>> >>
                  [] shape.refs = "released" -> << <<ReleasedLine>> >>
                  [] shape.refs = "unreleased" -> << <<UnreleasedLine>> >>
                  [] shape.refs = "reversed" -> << <<ReleasedLine, UnreleasedLine>> >>
    IN  (IF shape.title THEN <<TitleBlock>> ELSE <<>>)
        \o [i \in 1..shape.desc |-> DescriptionBlock]
        \o (CASE shape.dated = "none" -> unrel
              [] shape.dated = "after" -> unrel \o DatedBlocks
              [] shape.dated = "before" -> DatedBlocks \o unrel)
        \o refs

\* the separators of the lines of a sequence of blocks
RECURSIVE BlockSeps(_)
BlockSeps(blocks) ==
    IF blocks = <<>> THEN <<>>
    ELSE [i \in 1..(Len(Head(blocks)) - 1) |-> 1]
         \o (IF Len(blocks) > 1 THEN <<2>> ELSE <<>>)
         \o BlockSeps(Tail(blocks))

DocOf(shape) == [lines |-> Concat(BlocksOf(shape)), seps |-> BlockSeps(BlocksOf(shape))]

Shape(title, desc, unrel, dated, refs) ==
    [title |-> title, desc |-> desc, unrel |-> unrel, dated |-> dated, refs |-> refs]

UnreleasedShapes == {"none", "placeholder", "list", "added", "two"}
ReferenceShapes == {"none", "both", "released", "unreleased", "reversed"}

Shapes ==
    \* the conventional file, with 0 to 2 description paragraphs
    { Shape(TRUE, d, u, "after", "both") : d \in 0..2, u \in UnreleasedShapes }
    \* sections and references missing or out of order
    \cup { Shape(TRUE, 2, u, s, r) : u \in {"placeholder", "added"},
                                     s \in {"none", "after", "before"},
                                     r \in ReferenceShapes }
    \* a title followed by the Unreleased section alone
    \cup { Shape(TRUE, 0, "placeholder", "none", r) : r \in {"none", "unreleased", "both"} }
    \* files without a title
    \cup { Shape(FALSE, 0, u, s, "both") : u \in {"none", "placeholder", "two"},
                                           s \in {"after", "before"} }

Docs == { DocOf(shape) : shape \in Shapes }

(***************************************************************************)
(* The arguments the operations are called with.                           *)
(***************************************************************************)
Sections == { <<"A", "d", "d", "e", "d">>, <<"F", "i", "x", "e", "d">> }
Items == { <<"A">>, <<"B">> }
Versions == { SemVer(1, 2, 0, NoName), SemVer(2, 0, 0, NoName) }
Scopes == { NoScope, Scope(<<"p", "k", "g">>, FALSE) }
Selectors == { NoName, Name(<<"l", "a", "t", "e", "s", "t">>) }
Today == <<"2", "0", "2", "4", "-", "0", "5", "-", "0", "6">>

(***************************************************************************)
(* The state machine: a Changelog is constructed from a file, then its     *)
(* operations are called one after the other.  An operation that panics or *)
(* returns an error ends the run.  A query leaves the tree, the file and    *)
(* the history as they are: the operations that can follow it are those    *)
(* that can follow the state it was called in, so a query is taken as the   *)
(* last step of a run.                                                     *)
(***************************************************************************)
Init ==
    /\ input \in Docs
    /\ file = TextOf(input)
    /\ root = FromStr(file)
    /\ pre = root
    /\ op = [kind |-> "new"]
    /\ out = "ok"
    /\ res = None
    /\ hist = <<>>
    /\ initial = root
    /\ package_version = None

\* Changelog::add_list_item_to_section
AddItem ==
    /\ out = "ok"
    /\ op.kind # "contents"
    /\ Len(hist) < MaxOps
    /\ \E section_name \in Sections, item \in Items :
         \E r \in {AddListItemToSection(root, section_name, item, NoScope)} :
         LET call == [kind |-> "add", section_name |-> section_name, item |-> item]
         IN  /\ root' = r.root
             /\ out' = r.out
             /\ op' = call
             /\ hist' = Append(hist, call)
    /\ pre' = root
    /\ res' = None
    /\ UNCHANGED <<file, input, initial, package_version>>

\* Changelog::release: the file is written when persist is reached
Release ==
    /\ out = "ok"
    /\ op.kind # "contents"
    /\ Len(hist) < MaxOps
    /\ \E version \in Versions, scope \in Scopes :
         \E r \in {ReleaseTree(root, version, scope, Today)} :
         LET call == [kind |-> "release", version |-> version, scope |-> scope]
         IN  /\ root' = r.root
             /\ out' = r.out
             /\ file' = IF r.out = "ok" THEN Persisted(r.root) ELSE file
             /\ op' = call
             /\ hist' = Append(hist, call)
    /\ pre' = root
    /\ res' = None
    /\ UNCHANGED <<input, initial, package_version>>

\* Changelog::get_contents_of_section_scope
Contents ==
    /\ out = "ok"
    /\ op.kind # "contents"
    /\ \E name \in Selectors, scope \in Scopes :
         /\ res' = GetContentsOfSectionScope(root, name, scope)
         /\ op' = [kind |-> "contents", name |-> name, scope |-> scope]
    /\ pre' = root
    /\ out' = "ok"
    /\ UNCHANGED <<file, root, input, hist, initial, package_version>>

Next == AddItem \/ Release \/ Contents

Spec == Init /\ [][Next]_vars

(***************************************************************************)
(* SemVer (package.rs): the bumps, change_to and from_str.                 *)
(***************************************************************************)
\* Result: Ok(value) and Err(cause)
Ok(value) == [is_ok |-> TRUE, value |-> value]
Err(cause) == [is_ok |-> FALSE, cause |-> cause]

\* a minor bump that keeps the patch number and the pre-release
NewMinorKeepsRest(v) == SemVer(v.major, v.minor + 1, v.patch, v.pre_release)

\* SemVer::new_major, new_minor, new_patch
NewMajor(v) == SemVer(v.major + 1, 0, 0, NoName)
NewMinor(v) == SemVer(v.major, v.minor + 1, 0, NoName)
NewPatch(v) == SemVer(v.major, v.minor, v.patch + 1, NoName)

\* the value of a sequence of decimal digits
DigitValue(c) == CHOOSE d \in 0..9 : DigitChars[d + 1] = c

RECURSIVE DigitsValue(_)
DigitsValue(s) ==
    IF s = <<>> THEN 0
    ELSE 10 * DigitsValue(SubSeq(s, 1, Len(s) - 1)) + DigitValue(s[Len(s)])

\* str::parse::<u64>: an optional + sign, then one or more decimal digits
ParseU64(s) ==
    LET digits == IF s # <<>> /\ s[1] = "+" THEN Tail(s) ELSE s
    IN  IF digits = <<>> \/ \E i \in 1..Len(digits) : digits[i] \notin {DigitChars[d] : d \in 1..10}
        THEN Err("ParseIntError")
        ELSE Ok(DigitsValue(digits))

\* str::split_once: the text before and after the first occurrence
SplitOnce(s, pat) ==
    LET at == IndexOfFrom(s, pat, 1)
    IN  IF at = 0 THEN NoName
        ELSE Name(<<SubSeq(s, 1, at - 1), SubSeq(s, at + Len(pat), Len(s))>>)

\* SemVer::from_str for a text that is none of the four keywords
ParseSemVer(s) ==
    LET split == SplitOnce(s, <<"-">>)
        numbers == IF split.is_some THEN split.text[1] ELSE s
        pre_release == IF split.is_some THEN Name(split.text[2]) ELSE NoName
        parts == Split(numbers, <<".">>)
    IN  IF Len(parts) >= 3
        THEN LET major == ParseU64(parts[1])
                 minor == ParseU64(parts[2])
                 patch == ParseU64(parts[3])
             IN  IF ~major.is_ok THEN major
                 ELSE IF ~minor.is_ok THEN minor
                 ELSE IF ~patch.is_ok THEN patch
                 ELSE Ok(SemVer(major.value, minor.value, patch.value, pre_release))
        ELSE IF Len(parts) = 0 THEN Err("major version is missing")
        ELSE IF Len(parts) = 1 THEN Err("minor version is missing")
        ELSE Err("patch version is missing")

\* SemVer::from_str; current is the version of the package.json of the
\* current directory
SemVerFromStr(s, current) ==
    IF s = <<"m", "a", "j", "o", "r">> THEN Ok(NewMajor(current))
    ELSE IF s = <<"m", "i", "n", "o", "r">> THEN Ok(NewMinor(current))
    ELSE IF s = <<"p", "a", "t", "c", "h">> THEN Ok(NewPatch(current))
    ELSE IF s = <<"i", "n", "f", "e", "r">> THEN Ok(current)
    ELSE ParseSemVer(s)

\* SemVer::change_to: the value returned, which self takes when it is Ok
ChangeToVersion(self, s) ==
    IF s = <<"m", "a", "j", "o", "r">> THEN Ok(NewMajor(self))
    ELSE IF s = <<"m", "i", "n", "o", "r">> THEN Ok(NewMinor(self))
    ELSE IF s = <<"p", "a", "t", "c", "h">> THEN Ok(NewPatch(self))
    ELSE IF s = <<"i", "n", "f", "e", "r">> THEN Ok(self)
    ELSE ParseSemVer(s)

(***************************************************************************)
(* The version handling of a release: the text given on the command line   *)
(* is applied to the version of a package (change_to) or parsed (from_str). *)
(***************************************************************************)
MaxPart == 1
MaxComponents == 4

\* the versions a package.json holds
SemVers ==
    { SemVer(major, minor, patch, pre_release) :
        major \in 0..MaxPart, minor \in 0..MaxPart, patch \in 0..MaxPart,
        pre_release \in {NoName, Name(<<"r", "c", ".", "1">>), Name(<<"r", "c", "-", "1">>)} }

Keywords == { <<"m", "a", "j", "o", "r">>, <<"m", "i", "n", "o", "r">>, <<"p", "a", "t", "c", "h">>, <<"i", "n", "f", "e", "r">> }

\* the texts given as version: up to MaxComponents components joined by
\* dots, with or without a pre-release suffix
Components == { <<>>, <<"7">>, <<"1", "2">>, <<"a">>, <<"+", "1">> }
Suffixes == { <<>>, <<"-">>, <<"-", "r", "c", ".", "1">>, <<"-", "r", "c", "-", "1">> }

VersionTexts ==
    UNION { { Join(cs, <<".">>) \o suffix : cs \in [1..n -> Components], suffix \in Suffixes } :
            n \in 1..MaxComponents }

VersionInputs ==
    { [text |-> t, version |-> v] : t \in Keywords, v \in SemVers }
    \cup { [text |-> t, version |-> SemVer(1, 1, 0, NoName)] : t \in VersionTexts }
    \cup { [text |-> SemVerToString(v), version |-> v] : v \in SemVers }

InitSV ==
    /\ input \in VersionInputs
    /\ package_version = input.version
    /\ file = <<>>
    /\ root = EmptyNode
    /\ pre = EmptyNode
    /\ op = [kind |-> "start"]
    /\ out = "ok"
    /\ res = None
    /\ hist = <<>>
    /\ initial = EmptyNode

\* package.version_mut().change_to(version)
ChangeTo ==
    /\ out = "ok"
    /\ op.kind # "from_str"
    /\ Len(hist) < MaxOps
    /\ \E r \in {ChangeToVersion(package_version, input.text)} :
         /\ res' = r
         /\ out' = IF r.is_ok THEN "ok" ELSE "err"
         /\ package_version' = IF r.is_ok THEN r.value ELSE package_version
    /\ op' = [kind |-> "change_to", self |-> package_version]
    /\ hist' = Append(hist, op')
    /\ UNCHANGED <<file, root, pre, input, initial>>

\* version.parse::<SemVer>()
Parse ==
    /\ out = "ok"
    /\ op.kind = "start"
    /\ \E r \in {SemVerFromStr(input.text, package_version)} :
         /\ res' = r
         /\ out' = IF r.is_ok THEN "ok" ELSE "err"
    /\ op' = [kind |-> "from_str"]
    /\ UNCHANGED <<file, root, pre, input, initial, hist, package_version>>

NextSV == ChangeTo \/ Parse

SpecSV == InitSV /\ [][NextSV]_vars

(***************************************************************************)
(* Changelogs with the Unreleased sections of packages (scopes), and the   *)
(* operations called with a scope, as main does for a monorepo.            *)
(***************************************************************************)
ScopedUnreleasedBlock == << <<"#", "#", " ", "[", "U", "n", "r", "e", "l", "e", "a", "s", "e", "d", " ", "-", " ", "p", "k", "g", "]">> >>
OtherUnreleasedBlock == << <<"#", "#", " ", "[", "U", "n", "r", "e", "l", "e", "a", "s", "e", "d", " ", "-", " ", "w", "e", "b", "]">> >>
ChangedBlocks == << << <<"#", "#", "#", " ", "C", "h", "a", "n", "g", "e", "d">> >>, << <<"-", " ", "T", "h", "r", "e", "e">> >> >>

\* plain and scoped tell what the section [Unreleased] and the section
\* [Unreleased - pkg] hold, other whether [Unreleased - web] is there
ScopedBlocksOf(shape) ==
    LET section(heading, form, blocks) ==
            CASE form = "none" -> <<>>
              [] form = "placeholder" -> <<heading, NothingYetBlock>>
              [] form = "added" -> <<heading>> \o blocks
    IN  <<TitleBlock, DescriptionBlock, DescriptionBlock>>
        \o section(UnreleasedBlock, shape.plain, AddedBlocks)
        \o section(ScopedUnreleasedBlock, shape.scoped, FixedBlocks)
        \o (IF shape.other THEN <<OtherUnreleasedBlock>> \o ChangedBlocks ELSE <<>>)
        \o DatedBlocks
        \o << <<UnreleasedLine, ReleasedLine>> >>

ScopedShapes ==
    { [plain |-> p, scoped |-> s, other |-> o] :
        p \in {"none", "placeholder", "added"},
        s \in {"none", "placeholder", "added"},
        o \in BOOLEAN }

ScopedDocs ==
    { [lines |-> Concat(ScopedBlocksOf(shape)), seps |-> BlockSeps(ScopedBlocksOf(shape))] :
        shape \in ScopedShapes }

\* the packages of the monorepo that the operations are called for
Packages == { Scope(<<"p", "k", "g">>, FALSE) }

InitScoped ==
    /\ input \in ScopedDocs
    /\ file = TextOf(input)
    /\ root = FromStr(file)
    /\ pre = root
    /\ op = [kind |-> "new"]
    /\ out = "ok"
    /\ res = None
    /\ hist = <<>>
    /\ initial = root
    /\ package_version = None

\* changelog.add_list_item_to_section(name, message, edit, Some(package))
AddItemScoped ==
    /\ out = "ok"
    /\ op.kind # "contents"
    /\ Len(hist) < MaxOps
    /\ \E section_name \in Sections, item \in Items, scope \in Packages :
         \E r \in {AddListItemToSection(root, section_name, item, scope)} :
         LET call == [kind |-> "add", section_name |-> section_name, item |-> item,
                      scope |-> scope]
         IN  /\ root' = r.root
             /\ out' = r.out
             /\ op' = call
             /\ hist' = Append(hist, call)
    /\ pre' = root
    /\ res' = None
    /\ UNCHANGED <<file, input, initial, package_version>>

NextScoped == AddItemScoped \/ Release \/ Contents

SpecScoped == InitScoped /\ [][NextScoped]_vars

(***************************************************************************)
(* The queries with an explicit selector: get_contents_of_section_scope    *)
(* and notes, on changelogs that also hold the sections of a package.      *)
(***************************************************************************)
\* the escape character of the sequences the colored crate writes
ESC == "ESC"

\* colored: text.blue().bold() and text.white().dimmed(); the text is left
\* as it is when the output is not coloured
BlueBold(text, colour) ==
    IF colour THEN <<ESC>> \o <<"[", "1", ";", "3", "4", "m">> \o text \o <<ESC>> \o <<"[", "0", "m">> ELSE text
WhiteDimmed(text, colour) ==
    IF colour THEN <<ESC>> \o <<"[", "2", ";", "3", "7", "m">> \o text \o <<ESC>> \o <<"[", "0", "m">> ELSE text

\* a result that is an error when no section is found
NotesScopeErr(tree, version, scope, colour) ==
    LET node == GetContentsOfSectionScope(tree, version, scope)
    IN  IF node # None THEN Ok(NodeToString(node))
        ELSE Err(<<"C", "o", "u", "l", "d", "n", "'", "t", " ", "f", "i", "n", "d", " ", "n", "o", "t", "e", "s", " ", "f", "o", "r", " ", "v", "e", "r", "s", "i", "o", "n">>)

\* Changelog::notes_scope
NotesScope(tree, version, scope, colour) ==
    LET node == GetContentsOfSectionScope(tree, version, scope)
    IN  Ok(IF node # None THEN NodeToString(node)
           ELSE <<"C", "o", "u", "l", "d", "n", "'", "t", " ", "f", "i", "n", "d", " ", "n", "o", "t", "e", "s", " ", "f", "o", "r", " ", "v", "e", "r", "s", "i", "o", "n", ":", " ">>
                \o BlueBold(IF version.is_some THEN version.text ELSE <<"<", "u", "n", "k", "n", "o", "w", "n", ">">>, colour)
                \o <<" ">>
                \o (IF scope.is_some
                    THEN <<"(">> \o WhiteDimmed(scope.name, colour) \o <<")">>
                    ELSE <<>>))

\* Changelog::notes
Notes(tree, version, colour) == NotesScope(tree, version, NoScope, colour)

PackageReleasedBlocks ==
    << << <<"#", "#", " ", "[", "p", "k", "g", "@", "v", "1", ".", "1", ".", "0", "]", " ", "-", " ", "2", "0", "2", "4", "-", "0", "1", "-", "0", "1">> >>, << <<"#", "#", "#", " ", "F", "i", "x", "e", "d">> >>, << <<"-", " ", "T", "w", "o">> >> >>
EarlierBlocks ==
    << << <<"#", "#", " ", "[", "1", ".", "1", ".", "0", "]", " ", "-", " ", "2", "0", "2", "3", "-", "1", "2", "-", "3", "1">> >>, << <<"#", "#", "#", " ", "C", "h", "a", "n", "g", "e", "d">> >>, << <<"-", " ", "T", "h", "r", "e", "e">> >> >>

\* plain tells what the section [Unreleased] holds; scoped, package, dated
\* and twice whether the sections [Unreleased - pkg], [pkg@v1.1.0],
\* [1.1.0] and a second section [1.1.0] are there
NotesBlocksOf(shape) ==
    <<TitleBlock, DescriptionBlock, DescriptionBlock>>
    \o (CASE shape.plain = "none" -> <<>>
          [] shape.plain = "placeholder" -> <<UnreleasedBlock, NothingYetBlock>>
          [] shape.plain = "added" -> <<UnreleasedBlock>> \o AddedBlocks)
    \o (IF shape.scoped THEN <<ScopedUnreleasedBlock>> \o FixedBlocks ELSE <<>>)
    \o (IF shape.package THEN PackageReleasedBlocks ELSE <<>>)
    \o (IF shape.dated THEN DatedBlocks ELSE <<>>)
    \o (IF shape.twice THEN EarlierBlocks ELSE <<>>)
    \o << <<UnreleasedLine, ReleasedLine>> >>

NotesShapes ==
    { [plain |-> p, scoped |-> s, package |-> k, dated |-> d, twice |-> t] :
        p \in {"none", "placeholder", "added"},
        s \in BOOLEAN, k \in BOOLEAN, d \in BOOLEAN, t \in BOOLEAN }

NotesDocs ==
    { [lines |-> Concat(NotesBlocksOf(shape)), seps |-> BlockSeps(NotesBlocksOf(shape))] :
        shape \in NotesShapes }

\* the selectors given on the command line, and the scopes of a lookup
ExplicitSelectors ==
    { Name(<<"1", ".", "1", ".", "0">>), Name(<<"1", ".", "1">>), Name(<<"9", ".", "9", ".", "9">>),
      Name(<<"u", "n", "r", "e", "l", "e", "a", "s", "e", "d">>), Name(<<"U", "N", "R", "E", "L", "E", "A", "S", "E", "D">>) }
NotesSelectors == ExplicitSelectors \cup Selectors
LookupScopes == { NoScope, Scope(<<"p", "k", "g">>, FALSE), Scope(<<"p", "k", "g">>, TRUE) }

InitNotes ==
    /\ input \in NotesDocs
    /\ file = TextOf(input)
    /\ root = FromStr(file)
    /\ pre = root
    /\ op = [kind |-> "new"]
    /\ out = "ok"
    /\ res = None
    /\ hist = <<>>
    /\ initial = root
    /\ package_version = None

\* Changelog::get_contents_of_section_scope with Some(name)
Lookup ==
    /\ out = "ok"
    /\ op.kind = "new"
    /\ \E name \in ExplicitSelectors, scope \in LookupScopes :
         /\ res' = GetContentsOfSectionScope(root, name, scope)
         /\ op' = [kind |-> "contents", name |-> name, scope |-> scope]
    /\ pre' = root
    /\ out' = "ok"
    /\ UNCHANGED <<file, root, input, hist, initial, package_version>>

\* Commands::Notes: Changelog::new(..)?.notes(version.as_ref())
NotesCommand ==
    /\ out = "ok"
    /\ op.kind = "new"
    /\ \E version \in NotesSelectors, colour \in BOOLEAN :
         /\ res' = Notes(root, version, colour)
         /\ op' = [kind |-> "notes", version |-> version, colour |-> colour]
    /\ pre' = root
    /\ out' = IF res'.is_ok THEN "ok" ELSE "err"
    /\ UNCHANGED <<file, root, input, hist, initial, package_version>>

NextNotes == Lookup \/ NotesCommand

SpecNotes == InitNotes /\ [][NextNotes]_vars

(***************************************************************************)
(* release --with-npm without scopes: the external processes run after the *)
(* changelog is released.  hist is the list of the processes run.          *)
(***************************************************************************)
\* what running a process can come to: it cannot be started, it exits with
\* status 0, it exits with another status
ProcessOutcomes == {"spawn_failed", "exit_success", "exit_failure"}

\* Git::exec and Npm::exec: Err when cmd.output() is Err, else Ok(stdout)
Exec(outcome) ==
    IF outcome = "spawn_failed" THEN Err(outcome) ELSE Ok(<<>>)

\* Git::add, Git::commit, Npm::version_options: self.exec(..)?; Ok(self)
GitAdd(outcome) == Exec(outcome)
GitCommit(outcome) == Exec(outcome)
VersionOptions(outcome) == Exec(outcome)

\* Git::tag
GitTag(outcome) == Exec(outcome)

NpmDocs ==
    { DocOf(Shape(TRUE, 2, u, "after", r)) :
        u \in {"placeholder", "added"}, r \in {"both", "none"} }

InitNpm ==
    /\ \E doc \in NpmDocs, with_npm \in BOOLEAN, pkg_lock \in BOOLEAN :
          input = [lines |-> doc.lines, seps |-> doc.seps,
                   with_npm |-> with_npm, pkg_lock |-> pkg_lock]
    /\ file = TextOf(input)
    /\ root = FromStr(file)
    /\ pre = root
    /\ op = [kind |-> "new"]
    /\ out = "ok"
    /\ res = None
    /\ hist = <<>>
    /\ initial = root
    /\ package_version = None

\* version.parse()? and changelog.release(&version, None)?
ReleaseCommand ==
    /\ out = "ok"
    /\ op.kind = "new"
    /\ \E version \in Versions :
         \E r \in {ReleaseTree(root, version, NoScope, Today)} :
         /\ root' = r.root
         /\ out' = r.out
         /\ file' = IF r.out = "ok" THEN Persisted(r.root) ELSE file
         /\ op' = [kind |-> "release", version |-> version, scope |-> NoScope]
         /\ package_version' = version
    /\ pre' = root
    /\ res' = None
    /\ UNCHANGED <<input, hist, initial>>

\* one step of the flow: the process is run, and `?` ends the command when
\* the result is Err
Step(kind, program, result, outcome) ==
    /\ op' = [kind |-> kind]
    /\ hist' = Append(hist, [program |-> program, step |-> kind, outcome |-> outcome])
    /\ res' = result
    /\ out' = IF result.is_ok THEN "ok" ELSE "err"
    /\ pre' = root
    /\ UNCHANGED <<file, root, input, initial, package_version>>

\* repo.add(changelog.file_path_str())?
AddChangelog ==
    /\ out = "ok"
    /\ op.kind = "release"
    /\ input.with_npm
    /\ \E outcome \in ProcessOutcomes :
          Step("add_changelog", "git", GitAdd(outcome), outcome)

\* Npm::new(..)?.version_options(&version, ..)?
NpmVersion ==
    /\ out = "ok"
    /\ op.kind = "add_changelog"
    /\ \E outcome \in ProcessOutcomes :
          Step("npm_version", "npm", VersionOptions(outcome), outcome)

\* if pkg_lock.exists() { repo.add(pkg_lock)? }
AddPackageLock ==
    /\ out = "ok"
    /\ op.kind = "npm_version"
    /\ input.pkg_lock
    /\ \E outcome \in ProcessOutcomes :
          Step("add_package_lock", "git", GitAdd(outcome), outcome)

\* repo.add(package.json)?
AddPackageJson ==
    /\ out = "ok"
    /\ \/ op.kind = "add_package_lock"
       \/ op.kind = "npm_version" /\ ~input.pkg_lock
    /\ \E outcome \in ProcessOutcomes :
          Step("add_package_json", "git", GitAdd(outcome), outcome)

\* repo.commit(&version.to_string())?
CommitVersion ==
    /\ out = "ok"
    /\ op.kind = "add_package_json"
    /\ \E outcome \in ProcessOutcomes :
          Step("commit", "git", GitCommit(outcome), outcome)

\* repo.tag(&format!("v{}", &version))?
TagVersion ==
    /\ out = "ok"
    /\ op.kind = "commit"
    /\ \E outcome \in ProcessOutcomes :
          Step("tag", "git", GitTag(outcome), outcome)

NextNpm ==
    \/ ReleaseCommand
    \/ AddChangelog
    \/ NpmVersion
    \/ AddPackageLock
    \/ AddPackageJson
    \/ CommitVersion
    \/ TagVersion

SpecNpm == InitNpm /\ [][NextNpm]_vars

(***************************************************************************)
(* init: the changelog file is created when it is not there.  A file that  *)
(* does not exist is the text NoFile.                                      *)
(***************************************************************************)
NoFile == <<"ENOENT">>

\* fixtures/changelog.md
Fixture ==
    <<"#", " ", "C", "h", "a", "n", "g", "e", "l", "o", "g", "\n", "\n", "#", "#", " ", "[", "U", "n", "r", "e", "l", "e", "a", "s", "e", "d", "]", "\n", "\n", "-", " ", "N", "o", "t", "h", "i", "n", "g", " ", "y", "e", "t", "!", "\n", "\n", "#", "#", " ", "[", "0", ".", "1", ".", "0", "]", " ", "-", " ", "<", "d", "a", "t", "e", ">", "\n", "\n", "#", "#", "#", " ", "A", "d", "d", "e", "d", "\n", "\n", "-", " ", "E", "v", "e", "r", "y", "t", "h", "i", "n", "g", "!", "\n", "\n", "[", "u", "n", "r", "e", "l", "e", "a", "s", "e", "d", "]", ":", " ", "h", "t", "t", "p", "s", ":", "/", "/", "g", "i", "t", "h", "u", "b", ".", "c", "o", "m", "/", "<", "o", "w", "n", "e", "r", ">", "/", "<", "r", "e", "p", "o", ">", "/", "c", "o", "m", "p", "a", "r", "e", "/", "v", "0", ".", "1", ".", "0", ".", ".", ".", "H", "E", "A", "D", "\n", "[", "0", ".", "1", ".", "0", "]", ":", " ", "h", "t", "t", "p", "s", ":", "/", "/", "g", "i", "t", "h", "u", "b", ".", "c", "o", "m", "/", "<", "o", "w", "n", "e", "r", ">", "/", "<", "r", "e", "p", "o", ">", "/", "r", "e", "l", "e", "a", "s", "e", "s", "/", "t", "a", "g", "/", "v", "0", ".", "1", ".", "0", "\n">>

\* Changelog::relative_path, for the file of the current directory
RelativePath == <<".", "/", "C", "H", "A", "N", "G", "E", "L", "O", "G", ".", "m", "d">>

\* Changelog::new: the tree of the file, Node::empty() when it is not there
LoadedTree(text) == IF text = NoFile THEN EmptyNode ELSE FromStr(text)

\* what init comes to: the file, the tree, the result and the outcome
InitOutcome(text, tree, result, outcome) ==
    [file |-> text, root |-> tree, res |-> result, out |-> outcome]

\* an init that does not look whether the file is there
InitOverwrites(text, is_git_repo, remote, date, colour) ==
    LET tree == LoadedTree(text)
        created == FromStr(Replace(Replace(Replace(Fixture, <<"<", "d", "a", "t", "e", ">">>, date),
                                           <<"<", "o", "w", "n", "e", "r", ">">>, <<"o">>), <<"<", "r", "e", "p", "o", ">">>, <<"r">>))
    IN  InitOutcome(Persisted(created), created,
            Ok(<<"C", "r", "e", "a", "t", "e", "d", " ", "n", "e", "w", " ", "c", "h", "a", "n", "g", "e", "l", "o", "g", " ", "f", "i", "l", "e", " ", "a", "t", ":", " ">> \o WhiteDimmed(RelativePath, colour)),
            "ok")

\* Changelog::new followed by Changelog::init; remote tells whether
\* Repo::from_git_repo finds the owner and the repository of the remote
ChangelogInit(text, is_git_repo, remote, date, colour) ==
    LET tree == LoadedTree(text)
        created == FromStr(Replace(Replace(Replace(Fixture, <<"<", "d", "a", "t", "e", ">">>, date),
                                           <<"<", "o", "w", "n", "e", "r", ">">>, <<"o">>), <<"<", "r", "e", "p", "o", ">">>, <<"r">>))
    IN  IF text # NoFile
        THEN InitOutcome(text, tree,
                 Ok(<<"C", "h", "a", "n", "g", "e", "l", "o", "g", " ", "a", "l", "r", "e", "a", "d", "y", " ", "e", "x", "i", "s", "t", "s", " ", "a", "t", ":", " ">> \o WhiteDimmed(RelativePath, colour)),
                 "ok")
        ELSE IF ~is_git_repo
        THEN InitOutcome(text, tree,
                 Ok(<<"N", "o", "t", " ", "a", " ", "g", "i", "t", " ", "r", "e", "p", "o", "s", "i", "t", "o", "r", "y", ":", " ">> \o WhiteDimmed(<<".">>, colour)),
                 "ok")
        ELSE IF ~remote
        THEN InitOutcome(text, tree, None, "panic")
        ELSE InitOutcome(Persisted(created), created,
                 Ok(<<"C", "r", "e", "a", "t", "e", "d", " ", "n", "e", "w", " ", "c", "h", "a", "n", "g", "e", "l", "o", "g", " ", "f", "i", "l", "e", " ", "a", "t", ":", " ">> \o WhiteDimmed(RelativePath, colour)),
                 "ok")

\* the directories init is run in: with one of the files of Docs or with no
\* file, in a git repository or not, with a remote or not
InitFs ==
    /\ \E doc \in Docs, exists \in BOOLEAN, is_git_repo \in BOOLEAN, remote \in BOOLEAN :
          input = [lines |-> doc.lines, seps |-> doc.seps, exists |-> exists,
                   is_git_repo |-> is_git_repo, remote |-> remote]
    /\ file = IF input.exists THEN TextOf(input) ELSE NoFile
    /\ root = EmptyNode
    /\ pre = EmptyNode
    /\ op = [kind |-> "start"]
    /\ out = "ok"
    /\ res = None
    /\ hist = <<>>
    /\ initial = EmptyNode
    /\ package_version = None

\* Commands::Init: Changelog::new(&pwd, &args.filename)?, then init()?
InitCommand ==
    /\ out = "ok"
    /\ Len(hist) < MaxOps
    /\ \E colour \in BOOLEAN :
         \E r \in {ChangelogInit(file, input.is_git_repo, input.remote, Today, colour)} :
         LET call == [kind |-> "init", before |-> file, colour |-> colour]
         IN  /\ file' = r.file
             /\ root' = r.root
             /\ res' = r.res
             /\ out' = r.out
             /\ op' = call
             /\ hist' = Append(hist, call)
    /\ pre' = LoadedTree(file)
    /\ UNCHANGED <<input, initial, package_version>>

NextInit == InitCommand

SpecInit == InitFs /\ [][NextInit]_vars

(***************************************************************************)
(* The searches of a tree: find_node, find_node_mut and filter_nodes,      *)
(* applied to every node of a changelog with the closures of changelog.rs. *)
(***************************************************************************)
RECURSIVE FilterPaths(_, _), FindMutPath(_, _), FindMutBelow(_, _, _)

\* Node::filter_nodes: the paths of the nodes of which the closure holds,
\* the node before its children, the children from left to right
FilterPaths(node, p) ==
    (IF Matches(p, node) THEN << <<>> >> ELSE <<>>)
    \o Concat([i \in 1..Len(node.children) |->
                 LET below == FilterPaths(node.children[i], p)
                 IN  [k \in 1..Len(below) |-> <<i>> \o below[k]]])

\* a search that returns the last node of which the closure holds
FindMutLast(node, p) ==
    LET all == FilterPaths(node, p)
    IN  IF all = <<>> THEN NoPath ELSE all[Len(all)]

\* Node::find_node_mut
FindMutPath(node, p) ==
    IF Matches(p, node) THEN <<>> ELSE FindMutBelow(node, p, 1)

\* the loop of find_node_mut over the children, from child i on
FindMutBelow(node, p, i) ==
    IF i > Len(node.children) THEN NoPath
    ELSE LET r == FindMutPath(node.children[i], p)
         IN  IF r # NoPath THEN <<i>> \o r ELSE FindMutBelow(node, p, i + 1)

\* the closures changelog.rs searches with
Closures ==
    { IsUnorderedList, IsH3, IsReleasedReference,
      IsUnreleasedH2(UnreleasedHeading(NoScope)),
      IsSectionH3(<<"a", "d", "d", "e", "d">>), IsSectionH3(<<"R", "e", "m", "o", "v", "e", "d">>),
      IsUnreleasedReference(<<"u", "n", "r", "e", "l", "e", "a", "s", "e", "d">>),
      IsSelected(NoName, NoScope), IsSelected(Name(<<"l", "a", "t", "e", "s", "t">>), NoScope),
      IsSelected(Name(<<"1", ".", "1", ".", "0">>), NoScope) }

\* the node and the nodes below it
RECURSIVE Subtrees(_)
Subtrees(node) ==
    {node} \cup UNION { Subtrees(node.children[i]) : i \in 1..Len(node.children) }

\* files in which a heading directly follows a heading of its level
NestedDocs ==
    LET docs == { <<UnreleasedBlock>> \o DatedBlocks \o << <<UnreleasedLine, ReleasedLine>> >>,
                  <<TitleBlock, UnreleasedBlock, << <<"#", "#", "#", " ", "A", "d", "d", "e", "d">> >> >> \o FixedBlocks }
    IN  { [lines |-> Concat(blocks), seps |-> BlockSeps(blocks)] : blocks \in docs }

InitSearch ==
    /\ input \in Docs \cup NestedDocs
    /\ file = TextOf(input)
    /\ root = FromStr(file)
    /\ pre = root
    /\ op = [kind |-> "new"]
    /\ out = "ok"
    /\ res = None
    /\ hist = <<>>
    /\ initial = root
    /\ package_version = None

\* find_node, find_node_mut and filter_nodes called on a node with a closure
Search ==
    /\ out = "ok"
    /\ op.kind = "new"
    /\ \E node \in Subtrees(root), p \in Closures :
          /\ op' = [kind |-> "search", node |-> node, p |-> p]
          /\ res' = [find |-> FindPath(node, p),
                     find_mut |-> FindMutPath(node, p),
                     filter |-> FilterPaths(node, p)]
    /\ pre' = root
    /\ out' = "ok"
    /\ UNCHANGED <<file, root, input, hist, initial, package_version>>

NextSearch == Search

SpecSearch == InitSearch /\ [][NextSearch]_vars

(***************************************************************************)
(* add_item with section names that differ in case.                        *)
(***************************************************************************)
\* a file whose Unreleased section is empty
EmptyUnreleasedDoc ==
    LET blocks == <<TitleBlock, DescriptionBlock, DescriptionBlock, UnreleasedBlock>>
                  \o DatedBlocks \o << <<UnreleasedLine, ReleasedLine>> >>
    IN  [lines |-> Concat(blocks), seps |-> BlockSeps(blocks)]

CaseDocs ==
    { DocOf(Shape(TRUE, 2, u, "after", "both")) : u \in {"none", "placeholder", "added"} }
    \cup { EmptyUnreleasedDoc }

CaseSections == { <<"A", "d", "d", "e", "d">>, <<"a", "d", "d", "e", "d">>, <<"F", "I", "X", "E", "D">> }

InitCase ==
    /\ input \in CaseDocs
    /\ file = TextOf(input)
    /\ root = FromStr(file)
    /\ pre = root
    /\ op = [kind |-> "new"]
    /\ out = "ok"
    /\ res = None
    /\ hist = <<>>
    /\ initial = root
    /\ package_version = None

\* changelog.add_list_item_to_section(name, message, false, None)
AddItemAnyCase ==
    /\ out = "ok"
    /\ Len(hist) < MaxOps
    /\ \E section_name \in CaseSections, item \in Items :
         \E r \in {AddListItemToSection(root, section_name, item, NoScope)} :
         LET call == [kind |-> "add", section_name |-> section_name, item |-> item]
         IN  /\ root' = r.root
             /\ out' = r.out
             /\ file' = IF r.out = "ok" THEN Persisted(r.root) ELSE file
             /\ op' = call
             /\ hist' = Append(hist, call)
    /\ pre' = root
    /\ res' = None
    /\ UNCHANGED <<input, initial, package_version>>

NextCase == AddItemAnyCase

SpecCase == InitCase /\ [][NextCase]_vars

(***************************************************************************)
(* list: the references of the changelog, as many as asked for.            *)
(***************************************************************************)
\* enum Amount
AmountAll == [all |-> TRUE]
AmountValue(x) == [all |-> FALSE, value |-> x]

\* Amount::from_str
AmountFromStr(s) ==
    IF s = <<"a", "l", "l">> THEN Ok(AmountAll)
    ELSE LET parsed == ParseU64(s)
         IN  IF parsed.is_ok THEN Ok(AmountValue(parsed.value)) ELSE Err("Invalid amount")

\* format!("- {:15} {}", name, link): the name is padded to 15 characters
ReleaseLine(token) ==
    <<"-", " ">> \o token.name \o Spaces(IF Len(token.name) < 15 THEN 15 - Len(token.name) ELSE 0)
    \o <<" ">> \o token.link

\* the text of the first references, or the text that there are none
ListedText(tokens, amount) ==
    LET n == IF amount.all \/ amount.value > Len(tokens) THEN Len(tokens) ELSE amount.value
        releases == Join([i \in 1..n |-> ReleaseLine(tokens[i])], <<NL>>)
    IN  Ok(IF releases = <<>> THEN <<"T", "h", "e", "r", "e", " ", "a", "r", "e", " ", "n", "o", " ", "r", "e", "l", "e", "a", "s", "e", "s", " ", "y", "e", "t", ".">> ELSE releases)

\* a list that leaves out the reference of the Unreleased section
ListReleased(tree, amount) ==
    LET paths == FilterPaths(tree, IsReleasedReference)
    IN  ListedText([i \in 1..Len(paths) |-> NodeAt(tree, paths[i]).data], amount)

\* Changelog::list
List(tree, amount) ==
    LET paths == FilterPaths(tree, IsReference)
    IN  ListedText([i \in 1..Len(paths) |-> NodeAt(tree, paths[i]).data], amount)

\* the files listed, and the amounts asked for
ListDocs ==
    { DocOf(Shape(TRUE, 2, "added", "after", r)) : r \in ReferenceShapes } \cup NestedDocs
AmountTexts ==
    { <<"a", "l", "l">>, <<"A", "L", "L">>, <<"0">>, <<"1">>, <<"2">>, <<"3">>, <<"1", "0">>, <<"-", "1">>, <<"t", "w", "o">>, <<>> }

InitList ==
    /\ input \in ListDocs
    /\ file = TextOf(input)
    /\ root = FromStr(file)
    /\ pre = root
    /\ op = [kind |-> "new"]
    /\ out = "ok"
    /\ res = None
    /\ hist = <<>>
    /\ initial = root
    /\ package_version = None

\* Commands::List: the amount is parsed, then Changelog::new(..)?.list(amount)?
ListCommand ==
    /\ out = "ok"
    /\ op.kind # "list"
    /\ \E text \in AmountTexts :
         \E amount \in {AmountFromStr(text)} :
         /\ res' = IF amount.is_ok THEN List(root, amount.value) ELSE amount
         /\ out' = IF amount.is_ok THEN "ok" ELSE "err"
         /\ op' = [kind |-> "list", amount |-> text]
    /\ pre' = root
    /\ UNCHANGED <<file, root, input, hist, initial, package_version>>

\* changelog.release(&version, None), to list a changelog that was released
ReleaseBeforeList ==
    /\ op.kind # "list"
    /\ Release

NextList == ReleaseBeforeList \/ ListCommand

SpecList == InitList /\ [][NextList]_vars

(***************************************************************************)
(* Reference lines: files of one or two lines [label]: url are loaded and  *)
(* persisted.                                                              *)
(***************************************************************************)
RefLabels == { <<"v">>, <<"1", ".", "0", ".", "0">> }
RefLinks == { <<"u">>, <<"u", ":", "w">>, <<"u", ":", " ", "w">>, <<"u", ":", " ", "w", ":", " ", "x">>, <<"h", ":", "/", "/", "p">> }

\* the references of a file, and its text
RefInputs ==
    UNION { { [refs |-> rs,
               lines |-> [i \in 1..n |-> <<"[">> \o rs[i].name \o <<"]", ":", " ">> \o rs[i].link],
               seps |-> [i \in 1..(n - 1) |-> 1]] :
                rs \in [1..n -> [name : RefLabels, link : RefLinks]] } :
            n \in 1..2 }

InitRef ==
    /\ input \in RefInputs
    /\ file = TextOf(input)
    /\ root = EmptyNode
    /\ pre = EmptyNode
    /\ op = [kind |-> "start"]
    /\ out = "ok"
    /\ res = None
    /\ hist = <<>>
    /\ initial = EmptyNode
    /\ package_version = None

SpecRef == InitRef /\ [][NextRT]_vars

(***************************************************************************)
(* C22: init.                                                              *)
(***************************************************************************)
\* C22: init writes the file only when it is not there: when the file is
\* there, init answers "Changelog already exists" and leaves the file and
\* the tree as they were; when the directory is no git repository it writes
\* nothing either.
C22_InitOnlyCreates ==
    op.kind = "init" =>
        /\ op.before # NoFile =>
              /\ out = "ok"
              /\ res.is_ok
              /\ StartsWith(res.value, <<"C", "h", "a", "n", "g", "e", "l", "o", "g", " ", "a", "l", "r", "e", "a", "d", "y", " ", "e", "x", "i", "s", "t", "s">>)
              /\ file = op.before
              /\ root = pre
        /\ (op.before = NoFile /\ ~input.is_git_repo) =>
              /\ file = NoFile
              /\ root = pre
        /\ file # op.before => op.before = NoFile

\* init has created the file, and a second init has found it there
C22_Witness ==
    /\ Len(hist) = 2
    /\ hist[1].before = NoFile
    /\ op.kind = "init"
    /\ op.before # NoFile
    /\ file = op.before
    /\ res.is_ok
    /\ StartsWith(res.value, <<"C", "h", "a", "n", "g", "e", "l", "o", "g", " ", "a", "l", "r", "e", "a", "d", "y", " ", "e", "x", "i", "s", "t", "s">>)

(***************************************************************************)
(* C21: a reference line without ": ".                                     *)
(***************************************************************************)
\* the first line of the group (the lines between two blank lines) of line i
GroupStart(doc, i) ==
    CHOOSE j \in 1..i :
        /\ j = 1 \/ doc.seps[j - 1] = 2
        /\ \A k \in (j + 1)..i : doc.seps[k - 1] = 1

\* line i is tokenized on its own, starts with [ and has no ": "
Unsplittable(doc, i) ==
    /\ Trim(doc.lines[GroupStart(doc, i)])[1] \in {"#", "-", "["}
    /\ StartsWith(TrimStart(doc.lines[i]), <<"[">>)
    /\ Len(Split(TrimStart(doc.lines[i]), <<":", " ">>)) < 2

\* C21 as claimed: reading a text with a line that starts with [ and cannot
\* be split on ": " ends in an error outcome returned to the caller, and no
\* tree is produced.
C21_ParseErrorReturned ==
    (op.kind = "new" /\ \E i \in 1..Len(input.lines) : Unsplittable(input, i)) =>
        out = "err" /\ root = pre

(***************************************************************************)
(* C27: the link of a reference.                                           *)
(***************************************************************************)
\* C27 as claimed: a line [label]: url becomes the token with the text
\* between the brackets as its label and the whole rest of the line as its
\* url, also when the url holds ": ", and persisting the tree writes the
\* line back.
C27_LinkKeptWhole ==
    /\ (op.kind = "new" /\ file = TextOf(input)) =>
          /\ out = "ok"
          /\ Len(root.children) = Len(input.refs)
          /\ \A i \in 1..Len(input.refs) :
                root.children[i] = FromToken(Reference(input.refs[i].name, input.refs[i].link))
    /\ op.kind = "persist" => StripNL(file) = StripNL(TextOf(input))

(***************************************************************************)
(* Vocabulary of the properties.                                           *)
(***************************************************************************)
\* the nodes of a tree in pre-order, each with its path
RECURSIVE Preorder(_)
Preorder(node) ==
    << [path |-> <<>>, node |-> node] >> \o
    Concat([i \in 1..Len(node.children) |->
              LET below == Preorder(node.children[i])
              IN  [k \in 1..Len(below) |->
                     [path |-> <<i>> \o below[k].path, node |-> below[k].node]]])

PathsOf(entries) == [i \in 1..Len(entries) |-> entries[i].path]

\* the paths, in pre-order, of the level-2 headings that are (are not) the
\* Unreleased heading of a scope
IsUnreleasedNode(node, scope) ==
    node.data.t = "H2" /\ EqIgnoreCase(node.data.text, UnreleasedHeading(scope))

UnreleasedPaths(tree, scope) ==
    PathsOf(SelectSeq(Preorder(tree), LAMBDA e : IsUnreleasedNode(e.node, scope)))

ReleasedPaths(tree, scope) ==
    PathsOf(SelectSeq(Preorder(tree),
                      LAMBDA e : e.node.data.t = "H2"
                                 /\ ~IsUnreleasedNode(e.node, scope)))

\* the reference tokens of a tree in pre-order, and those among the
\* children of the root
AllReferences(tree) ==
    LET es == SelectSeq(Preorder(tree), LAMBDA e : e.node.data.t = "Reference")
    IN  [i \in 1..Len(es) |-> es[i].node.data]

RootReferences(tree) ==
    LET cs == SelectSeq(tree.children, LAMBDA c : c.data.t = "Reference")
    IN  [i \in 1..Len(cs) |-> cs[i].data]

Labels(refs) == [i \in 1..Len(refs) |-> refs[i].name]

IsUnreleasedLabel(name) == ToLower(name) = <<"u", "n", "r", "e", "l", "e", "a", "s", "e", "d">>
IsReleasedLabel(name) == ~StartsWith(ToLower(name), <<"u", "n", "r", "e", "l", "e", "a", "s", "e", "d">>)

\* the position of the first element of a sequence satisfying a test, or 0
FirstUnreleasedLabel(labels) ==
    LET hits == {i \in 1..Len(labels) : IsUnreleasedLabel(labels[i])}
    IN  IF hits = {} THEN 0 ELSE CHOOSE i \in hits : \A j \in hits : i <= j

FirstReleasedLabel(labels) ==
    LET hits == {i \in 1..Len(labels) : IsReleasedLabel(labels[i])}
    IN  IF hits = {} THEN 0 ELSE CHOOSE i \in hits : \A j \in hits : i <= j

\* the list `- Nothing yet!`
PlaceholderList == Node(UnorderedList, <<FromToken(ListItem(<<"N", "o", "t", "h", "i", "n", "g", " ", "y", "e", "t", "!">>, 0))>>)

\* the tree the program started from
InitialRoot == initial

\* a sequence with x inserted so that it becomes element i
InsertedAt(s, i, x) == SubSeq(s, 1, i - 1) \o <<x>> \o SubSeq(s, i, Len(s))

RECURSIVE Reverse(_)
Reverse(s) == IF s = <<>> THEN <<>> ELSE Append(Reverse(Tail(s)), Head(s))

(***************************************************************************)
(* C2: N calls of add_item into an empty Unreleased section.               *)
(***************************************************************************)
\* every operation so far is an add_item with the section name of the first
OnlyAddsToOneSection ==
    /\ hist # <<>>
    /\ \A i \in 1..Len(hist) :
          hist[i].kind = "add" /\ hist[i].section_name = hist[1].section_name

\* the file had one Unreleased section, holding only the placeholder list
StartedEmpty ==
    LET ps == UnreleasedPaths(InitialRoot, NoScope)
    IN  Len(ps) = 1 /\ NodeAt(InitialRoot, ps[1]).children = <<PlaceholderList>>

\* C2: starting from an Unreleased section that holds only `- Nothing yet!`,
\* after N >= 1 calls of add_item with one section name the Unreleased
\* section holds exactly one level-3 heading of that name, with exactly one
\* list of exactly the N items in call order: no placeholder is left and no
\* item is lost.
C2_ItemsAccumulate ==
    (OnlyAddsToOneSection /\ StartedEmpty) =>
        /\ out = "ok"
        /\ LET ps == UnreleasedPaths(root, NoScope)
           IN  /\ Len(ps) = 1
               /\ NodeAt(root, ps[1]).children =
                    << Node(H3(hist[1].section_name),
                            << Node(UnorderedList,
                                    [i \in 1..Len(hist) |->
                                        FromToken(ListItem(hist[i].item, 0))]) >>) >>

\* two different items were added to one section of an empty Unreleased
C2_Witness ==
    /\ OnlyAddsToOneSection /\ StartedEmpty
    /\ Len(hist) >= 2
    /\ hist[1].item # hist[2].item
    /\ op.kind = "add"

(***************************************************************************)
(* C3: which list add_item removes.                                        *)
(***************************************************************************)
\* C3 as claimed: add_item removes a list directly under Unreleased only
\* when the list holds exactly the item "Nothing yet!"; any other list
\* directly under Unreleased is still there, with all its items, after the
\* call.
C3_OnlyPlaceholderRemoved ==
    (op.kind = "add" /\ out = "ok" /\ UnreleasedPaths(pre, NoScope) # <<>>) =>
        LET before == NodeAt(pre, UnreleasedPaths(pre, NoScope)[1])
            after == NodeAt(root, UnreleasedPaths(root, NoScope)[1])
        IN  \A i \in 1..Len(before.children) :
                (before.children[i].data = UnorderedList
                 /\ before.children[i] # PlaceholderList)
                    => \E j \in 1..Len(after.children) :
                          after.children[j] = before.children[i]

(***************************************************************************)
(* C4, C5: the resolver with an absent selector.                           *)
(***************************************************************************)
\* the last operation resolved the absent selector
ResolvedAbsent == op.kind = "contents" /\ ~op.name.is_some

HasH3Below(node) ==
    \E i \in 1..Len(node.children) : node.children[i].data.t = "H3"

\* the body of a section: the copy of its node without the heading
Body(node) == [node EXCEPT !.data = None]

C5_UnreleasedPreferred ==
    (/\ ResolvedAbsent
     /\ UnreleasedPaths(root, op.scope) # <<>>
     /\ HasH3Below(NodeAt(root, UnreleasedPaths(root, op.scope)[1])))
        => res = Body(NodeAt(root, UnreleasedPaths(root, op.scope)[1]))

(***************************************************************************)
(* C18, C19: the queries with an explicit selector.                        *)
(***************************************************************************)
\* the text a heading has to start with, in lower case
SelectorKey(name, scope) ==
    IF scope.is_some /\ ~scope.is_root
    THEN <<"[">> \o scope.name \o <<"@", "v">> \o ToLower(name.text) \o <<"]">>
    ELSE <<"[">> \o ToLower(name.text) \o <<"]">>

\* the level-2 nodes of a tree, in pre-order, whose heading starts with the key
KeyedSections(tree, key) ==
    LET es == SelectSeq(Preorder(tree),
                        LAMBDA e : e.node.data.t = "H2"
                                   /\ StartsWith(ToLower(e.node.data.text), key))
    IN  [i \in 1..Len(es) |-> es[i].node]

\* a lookup with an explicit selector other than "latest" has returned
ExplicitLookup ==
    /\ op.kind = "contents"
    /\ op.name.is_some
    /\ ~EqIgnoreCase(op.name.text, <<"l", "a", "t", "e", "s", "t">>)

\* the general rule of C18: the first level-2 node in pre-order whose heading
\* starts, whatever the case, with the key, copied with its payload cleared
\* and its children kept; nothing when there is none
FirstKeyedSection ==
    ExplicitLookup =>
        LET hits == KeyedSections(pre, SelectorKey(op.name, op.scope))
        IN  IF hits = <<>> THEN res = None
            ELSE res = Node(None, hits[1].children)

C19_NotesMissIsOk ==
    (op.kind = "notes" /\ GetContentsOfSectionScope(pre, op.version, NoScope) = None) =>
        /\ out = "ok"
        /\ res.is_ok
        /\ StartsWith(res.value, <<"C", "o", "u", "l", "d", "n", "'", "t", " ", "f", "i", "n", "d", " ", "n", "o", "t", "e", "s", " ", "f", "o", "r", " ", "v", "e", "r", "s", "i", "o", "n">>)
        /\ root = pre
        /\ root = initial

\* notes found no section for the version 9.9.9, and none for an absent
\* selector either
C19_Witness ==
    /\ op.kind = "notes"
    /\ GetContentsOfSectionScope(pre, op.version, NoScope) = None
    /\ res.is_ok
    /\ \/ op.version = Name(<<"9", ".", "9", ".", "9">>)
       \/ op.version = NoName

(***************************************************************************)
(* C20: the failures of the external processes.                            *)
(***************************************************************************)
\* a process of that outcome is the last one run, and the command has ended
\* with an error
EndsTheCommand(outcomes) ==
    \A i \in 1..Len(hist) :
        hist[i].outcome \in outcomes => (i = Len(hist) /\ out = "err")

\* C20 as claimed: when git add, npm version, git commit or git tag fails,
\* by not starting or by exiting unsuccessfully, the command ends with an
\* error and no later step is run.
C20_FailureAborts ==
    EndsTheCommand({"spawn_failed", "exit_failure"})

(***************************************************************************)
(* C6 - C10: release.                                                      *)
(***************************************************************************)
\* the last operation was a release that reached persist and returned Ok
Released == op.kind = "release" /\ out = "ok"

\* the first reference in pre-order labelled unreleased, and the first one
\* whose label does not start with unreleased (the latest version); None
\* when there is none
UnreleasedReference(tree) ==
    LET refs == AllReferences(tree)
        i == FirstUnreleasedLabel(Labels(refs))
    IN  IF i = 0 THEN None ELSE refs[i]

LatestReference(tree) ==
    LET refs == AllReferences(tree)
        i == FirstReleasedLabel(Labels(refs))
    IN  IF i = 0 THEN None ELSE refs[i]

CompareHead110 == <<"h", "t", "t", "p", "s", ":", "/", "/", "g", "i", "t", "h", "u", "b", ".", "c", "o", "m", "/", "o", "/", "r", "/", "c", "o", "m", "p", "a", "r", "e", "/", "v", "1", ".", "1", ".", "0", ".", ".", ".", "H", "E", "A", "D">>
CompareHead120 == <<"h", "t", "t", "p", "s", ":", "/", "/", "g", "i", "t", "h", "u", "b", ".", "c", "o", "m", "/", "o", "/", "r", "/", "c", "o", "m", "p", "a", "r", "e", "/", "v", "1", ".", "2", ".", "0", ".", ".", ".", "H", "E", "A", "D">>
Tag120 == <<"h", "t", "t", "p", "s", ":", "/", "/", "g", "i", "t", "h", "u", "b", ".", "c", "o", "m", "/", "o", "/", "r", "/", "r", "e", "l", "e", "a", "s", "e", "s", "/", "t", "a", "g", "/", "v", "1", ".", "2", ".", "0">>
Compare110To120 == <<"h", "t", "t", "p", "s", ":", "/", "/", "g", "i", "t", "h", "u", "b", ".", "c", "o", "m", "/", "o", "/", "r", "/", "c", "o", "m", "p", "a", "r", "e", "/", "v", "1", ".", "1", ".", "0", ".", ".", ".", "v", "1", ".", "2", ".", "0">>

\* release("1.2.0") without a scope returned Ok on a tree with an Unreleased
\* heading, the reference [unreleased]: .../compare/v1.1.0...HEAD and the
\* latest release 1.1.0
Released120After110 ==
    /\ Released
    /\ op.version = SemVer(1, 2, 0, NoName)
    /\ ~op.scope.is_some
    /\ UnreleasedPaths(pre, NoScope) # <<>>
    /\ UnreleasedReference(pre) = Reference(<<"u", "n", "r", "e", "l", "e", "a", "s", "e", "d">>, CompareHead110)
    /\ LatestReference(pre) # None
    /\ LatestReference(pre).name = <<"1", ".", "1", ".", "0">>

\* the Unreleased reference now ends in v1.2.0...HEAD, and the reference
\* [1.2.0]: link is the child of the root directly above the reference that
\* was the newest before
RewrittenWith(link) ==
    /\ UnreleasedReference(root) = Reference(<<"u", "n", "r", "e", "l", "e", "a", "s", "e", "d">>, CompareHead120)
    /\ \E i \in 1..(Len(root.children) - 1) :
          /\ root.children[i].data = Reference(<<"1", ".", "2", ".", "0">>, link)
          /\ root.children[i + 1].data = LatestReference(pre)

\* C6 as claimed: the inserted reference is
\* [1.2.0]: https://github.com/o/r/releases/tag/v1.2.0
C6_InsertsTagLink == Released120After110 => RewrittenWith(Tag120)

\* C6 amended: given [unreleased]: https://github.com/o/r/compare/v1.1.0...HEAD
\* and the latest release 1.1.0, a release("1.2.0") that returns Ok rewrites
\* the Unreleased reference to .../compare/v1.2.0...HEAD and inserts
\* [1.2.0]: https://github.com/o/r/compare/v1.1.0...v1.2.0 (the old link
\* with HEAD replaced by the tag) directly above the prior newest reference.
C6_InsertsCompareLink == Released120After110 => RewrittenWith(Compare110To120)

C6_Witness ==
    /\ Released120After110
    /\ Len(hist) = 1
    /\ Len(RootReferences(root)) = 3

\* the references among the root's children after a release that found the
\* Unreleased heading and the Unreleased reference: one more, labelled with
\* the version, directly before the first released one (at the end when
\* there is none); the others keep their labels and their order
OneReferenceAdded ==
    LET before == pre.children
        after == root.children
        hits == {i \in 1..Len(before) :
                    before[i].data.t = "Reference" /\ IsReleasedLabel(before[i].data.name)}
        at == IF hits = {} THEN Len(before) + 1
              ELSE CHOOSE i \in hits : \A j \in hits : i <= j
    IN  /\ Len(AllReferences(root)) = Len(AllReferences(pre)) + 1
        /\ Len(after) = Len(before) + 1
        /\ after[at].data.t = "Reference"
        /\ after[at].data.name = SemVerToString(op.version)
        /\ Labels(RootReferences(root))
             = Labels(RootReferences([pre EXCEPT !.children =
                                         InsertedAt(before, at, after[at])]))
        /\ \A i \in 1..Len(before) :
              before[i].data.t = "Reference" =>
                  after[IF i < at THEN i ELSE i + 1].data.name = before[i].data.name

\* the versions of the releases called so far, in call order
ReleasedVersions ==
    LET rs == SelectSeq(hist, LAMBDA h : h.kind = "release")
    IN  [i \in 1..Len(rs) |-> SemVerToString(rs[i].version)]

\* the file had an Unreleased heading, and its references were all children
\* of the root, the first of them labelled unreleased
StartedConventional ==
    /\ UnreleasedPaths(InitialRoot, NoScope) # <<>>
    /\ AllReferences(InitialRoot) = RootReferences(InitialRoot)
    /\ Len(RootReferences(InitialRoot)) >= 1
    /\ IsUnreleasedLabel(RootReferences(InitialRoot)[1].name)

C8_OnlyHeadingRenamed ==
    (Released /\ UnreleasedPaths(pre, NoScope) # <<>>) =>
        LET p == UnreleasedPaths(pre, NoScope)[1]
            parent == SubSeq(p, 1, Len(p) - 1)
            k == p[Len(p)]
            renamed == Node(H2(ReleasedHeading(op.version, Today)), NodeAt(pre, p).children)
            siblings == NodeAt(root, parent).children
            others == ReleasedPaths(pre, NoScope)
        IN  /\ \E j \in {k, k + 1} : j <= Len(siblings) /\ siblings[j] = renamed
            /\ \A i \in 1..Len(others) :
                  \E n \in 1..Len(Preorder(root)) :
                      Preorder(root)[n].node = NodeAt(pre, others[i])

\* the tree has exactly one Unreleased level-2 heading: the child at index 2
\* of the root's first child, holding only the placeholder list
FreshUnreleased ==
    /\ Len(UnreleasedPaths(root, NoScope)) = 1
    /\ root.children # <<>>
    /\ Len(root.children[1].children) >= 3
    /\ root.children[1].children[3] = Node(H2(<<"[", "U", "n", "r", "e", "l", "e", "a", "s", "e", "d", "]">>), <<PlaceholderList>>)

\* C9 as claimed: after every release that returns Ok the tree holds exactly
\* one Unreleased heading, the fresh one at index 2 of the root's first child.
C9_AlwaysFreshUnreleased == Released => FreshUnreleased

\* C9 amended: after a release that returns Ok on a tree that had exactly one
\* Unreleased level-2 heading, the tree holds exactly one Unreleased level-2
\* heading, newly created, at child index 2 of the root's first child, whose
\* only child is one list holding the single item "Nothing yet!".
C9_FreshUnreleased ==
    (Released /\ Len(UnreleasedPaths(pre, NoScope)) = 1) => FreshUnreleased

\* a section with entries was released and replaced by a fresh one
C9_Witness ==
    /\ Released
    /\ Len(UnreleasedPaths(pre, NoScope)) = 1
    /\ HasH3Below(NodeAt(pre, UnreleasedPaths(pre, NoScope)[1]))
    /\ FreshUnreleased

\* C10 as claimed: release on a tree with an Unreleased heading and no
\* released reference fails with the missing-version error and does not
\* write the file; when there is a released reference, the error is not
\* raised.
C10_MissingVersionError ==
    [][(op'.kind = "release" /\ hist' # hist /\ UnreleasedPaths(root, NoScope) # <<>>)
          => IF LatestReference(root) = None
             THEN out' = "err" /\ file' = file
             ELSE out' # "err"]_vars

(***************************************************************************)
(* C1: the round trip.                                                     *)
(***************************************************************************)
\* the kind of token a line stands for
LineKind(line) == LexLine(line).t

\* A document of the changelog dialect: paragraphs and lists end with a
\* blank line, the items of a list are on consecutive lines, the references
\* are consecutive lines at the end; a heading is followed by a blank line,
\* or directly by a list or a paragraph on the next line.
ValidDoc(doc) ==
    \A i \in 1..(Len(doc.lines) - 1) :
        LET k == LineKind(doc.lines[i])
            next == LineKind(doc.lines[i + 1])
            sep == doc.seps[i]
        IN  /\ IsHeading([t |-> k]) =>
                 sep = 2 \/ (sep = 1 /\ next \in {"ListItem", "Paragraph"})
            /\ k = "Paragraph" => sep = 2
            /\ k = "ListItem" => sep = (IF next = "ListItem" THEN 1 ELSE 2)
            /\ k = "Reference" => next = "Reference" /\ sep = 1

\* A valid document in which every heading is followed by a blank line.
BlankLineAfterHeadings(doc) ==
    \A i \in 1..(Len(doc.lines) - 1) :
        IsHeading([t |-> LineKind(doc.lines[i])]) => doc.seps[i] = 2

NodesOf(tree) ==
    LET entries == Preorder(tree)
    IN  { entries[n].node : n \in 1..Len(entries) }

\* the section of that name under a heading ends with the item
EndsWithItem(heading, section_name, item) ==
    \E i \in 1..Len(heading.children) :
        LET section == heading.children[i]
        IN  /\ section.data.t = "H3"
            /\ EqIgnoreCase(section.data.text, section_name)
            /\ \E j \in 1..Len(section.children) :
                  LET ul == section.children[j]
                  IN  /\ ul.data = UnorderedList
                      /\ ul.children # <<>>
                      /\ ul.children[Len(ul.children)] = FromToken(ListItem(item, 0))

\* C13 as claimed: add_item called with a scope finds or creates the heading
\* [Unreleased - scope] and appends the item under it; the plain
\* [Unreleased] section and the Unreleased section of another scope are left
\* as they were.
C13_ItemUnderScopedHeading ==
    (op.kind = "add" /\ op.scope.is_some) =>
        /\ out = "ok"
        /\ LET scoped == UnreleasedPaths(root, op.scope)
           IN  /\ Len(scoped) = 1
               /\ EndsWithItem(NodeAt(root, scoped[1]), op.section_name, op.item)
        /\ \A other \in {NoScope, Scope(<<"w", "e", "b">>, FALSE)} :
              \A i \in 1..Len(UnreleasedPaths(pre, other)) :
                  NodeAt(pre, UnreleasedPaths(pre, other)[i]) \in NodesOf(root)

\* C14 as claimed: release(version, scope) with a non-root scope, on a tree
\* that has the heading [Unreleased - scope], returns Ok, renames that
\* heading to [scope@version] - date with its children kept, and inserts a
\* fresh [Unreleased - scope] heading holding the placeholder list; so the
\* tree is changed, also when it has no plain [Unreleased] heading.
C14_ScopedRelease ==
    (/\ op.kind = "release"
     /\ op.scope.is_some
     /\ ~op.scope.is_root
     /\ UnreleasedPaths(pre, op.scope) # <<>>) =>
        LET old == NodeAt(pre, UnreleasedPaths(pre, op.scope)[1])
            heading == <<"[">> \o op.scope.name \o <<"@">> \o SemVerToString(op.version)
                       \o <<"]", " ", "-", " ">> \o Today
        IN  /\ out = "ok"
            /\ Node(H2(heading), old.children) \in NodesOf(root)
            /\ Node(H2(UnreleasedHeading(op.scope)), <<PlaceholderList>>) \in NodesOf(root)
            /\ root # pre

(***************************************************************************)
(* C24: find and filter.                                                   *)
(***************************************************************************)
\* the paths, in pre-order, of the nodes of which the closure holds
MatchingPaths(node, p) ==
    PathsOf(SelectSeq(Preorder(node), LAMBDA e : Matches(p, e.node)))

\* C24: find returns the first node in pre-order (the node before its
\* descendants, the children from left to right) of which the predicate
\* holds, that is the first element of filter's result, and none exactly
\* when filter's result is empty; find_mut selects the node find selects.
C24_FindIsFirstOfFilter ==
    op.kind = "search" =>
        /\ res.filter = MatchingPaths(op.node, op.p)
        /\ (res.find = NoPath) <=> (res.filter = <<>>)
        /\ res.filter # <<>> => res.find = res.filter[1]
        /\ res.find_mut = res.find

\* the predicate holds of the node searched and of a node below it, or of
\* two nodes below it
C24_Witness ==
    /\ op.kind = "search"
    /\ Len(res.filter) >= 2
    /\ res.find = res.filter[1]
    /\ \/ res.find = <<>>
       \/ Len(res.find) >= 2

(***************************************************************************)
(* C15: add_item on a file without an Unreleased section.                  *)
(***************************************************************************)
\* the first top-level node of the tree is a level-1 heading
HasMainHeading(tree) ==
    tree.children # <<>> /\ tree.children[1].data.t = "H1"

\* C15 as claimed: when the tree has no Unreleased heading, add_item creates
\* the Unreleased section whenever the first top-level node is a level-1
\* heading, however many children that heading has, and otherwise ends in an
\* error outcome with the tree unchanged.
C15_StructuralError ==
    (op.kind = "add" /\ UnreleasedPaths(pre, NoScope) = <<>>) =>
        IF HasMainHeading(pre)
        THEN /\ out = "ok"
             /\ Len(UnreleasedPaths(root, NoScope)) = 1
             /\ EndsWithItem(NodeAt(root, UnreleasedPaths(root, NoScope)[1]),
                             op.section_name, op.item)
        ELSE out = "err" /\ root = pre

(***************************************************************************)
(* C28: the place of the fresh Unreleased section.                         *)
(***************************************************************************)
\* the indices of the level-2 headings among the children of a node
SectionIndices(node) ==
    { i \in 1..Len(node.children) : node.children[i].data.t = "H2" }

\* the Unreleased heading of the tree is the first level-2 child of the
\* title: only description nodes are between the two
UnreleasedLeads(tree) ==
    /\ HasMainHeading(tree)
    /\ UnreleasedPaths(tree, NoScope) # <<>>
    /\ LET path == UnreleasedPaths(tree, NoScope)[1]
       IN  /\ Len(path) = 2
           /\ path[1] = 1
           /\ \A i \in SectionIndices(tree.children[1]) : path[2] <= i

\* C28 as claimed: after a release that returns Ok, of a tree in which only
\* description nodes are between the title and the Unreleased heading, the
\* fresh Unreleased heading is the first level-2 child of the title and the
\* section just dated is the child right after it, however many description
\* nodes there are.
C28_FreshUnreleasedOnTop ==
    (op.kind = "release" /\ out = "ok" /\ UnreleasedLeads(pre)) =>
        LET title == root.children[1]
            sections == SectionIndices(title)
            first == CHOOSE i \in sections : \A j \in sections : i <= j
        IN  /\ sections # {}
            /\ title.children[first]
                  = Node(H2(UnreleasedHeading(NoScope)), <<PlaceholderList>>)
            /\ first < Len(title.children)
            /\ title.children[first + 1].data = H2(ReleasedHeading(op.version, Today))

(***************************************************************************)
(* C11, C12: SemVer.                                                       *)
(***************************************************************************)
\* the last operation was change_to with the keyword k, on the version
\* op.self
Bumped(k) == op.kind = "change_to" /\ input.text = k

\* C11: for every SemVer, change_to("major") yields (major + 1, 0, 0),
\* change_to("minor") yields (major, minor + 1, 0) and change_to("patch")
\* yields (major, minor, patch + 1), each without a pre-release; "infer"
\* yields the version unchanged, pre-release included.  The value is
\* returned as Ok and is the new version of the package.
C11_BumpLaws ==
    /\ Bumped(<<"m", "a", "j", "o", "r">>) =>
          res = Ok([major |-> op.self.major + 1, minor |-> 0, patch |-> 0,
                    pre_release |-> NoName])
    /\ Bumped(<<"m", "i", "n", "o", "r">>) =>
          res = Ok([major |-> op.self.major, minor |-> op.self.minor + 1, patch |-> 0,
                    pre_release |-> NoName])
    /\ Bumped(<<"p", "a", "t", "c", "h">>) =>
          res = Ok([major |-> op.self.major, minor |-> op.self.minor,
                    patch |-> op.self.patch + 1, pre_release |-> NoName])
    /\ Bumped(<<"i", "n", "f", "e", "r">>) => res = Ok(op.self)
    /\ (op.kind = "change_to" /\ input.text \in Keywords) => package_version = res.value

\* a minor bump of a version with a patch number and a pre-release
C11_Witness ==
    /\ Bumped(<<"m", "i", "n", "o", "r">>)
    /\ op.self.patch > 0
    /\ op.self.pre_release.is_some
    /\ package_version.minor = op.self.minor + 1

\* the last operation parsed a text that is not a keyword
Parsed == op.kind = "from_str" /\ input.text \notin Keywords

\* the text before the pre-release suffix, and its dot-separated components
NumbersOf(text) ==
    LET dash == {i \in 1..Len(text) : text[i] = "-"}
    IN  IF dash = {} THEN text
        ELSE SubSeq(text, 1, (CHOOSE i \in dash : \A j \in dash : i <= j) - 1)

RECURSIVE ComponentsOf(_)
ComponentsOf(numbers) ==
    LET dots == {i \in 1..Len(numbers) : numbers[i] = "."}
    IN  IF dots = {} THEN <<numbers>>
        ELSE LET first == CHOOSE i \in dots : \A j \in dots : i <= j
             IN  <<SubSeq(numbers, 1, first - 1)>>
                 \o ComponentsOf(SubSeq(numbers, first + 1, Len(numbers)))

\* a component written as an unsigned integer: one or more decimal digits
IsUnsigned(c) ==
    c # <<>> /\ \A i \in 1..Len(c) : c[i] \in {"0", "1", "2", "3", "4", "5", "6", "7", "8", "9"}

\* C12 as claimed, for texts without a sign: the empty text is reported as a
\* missing major version; a lone major as a missing minor version;
\* major.minor as a missing patch version; three components of which one is
\* not an unsigned integer as non-numeric; and a text is accepted exactly
\* when it has the three components major.minor.patch, each an unsigned
\* integer, with or without a pre-release suffix.
C12_DistinctCauses ==
    (Parsed /\ \A i \in 1..Len(input.text) : input.text[i] # "+") =>
        LET cs == ComponentsOf(NumbersOf(input.text))
        IN  /\ input.text = <<>> => res = Err("major version is missing")
            /\ (Len(cs) = 1 /\ IsUnsigned(cs[1])) => res = Err("minor version is missing")
            /\ (Len(cs) = 2 /\ IsUnsigned(cs[1]) /\ IsUnsigned(cs[2]))
                  => res = Err("patch version is missing")
            /\ (Len(cs) = 3 /\ \E i \in 1..3 : ~IsUnsigned(cs[i]))
                  => res = Err("ParseIntError")
            /\ res.is_ok <=> (Len(cs) = 3 /\ \A i \in 1..3 : IsUnsigned(cs[i]))

(***************************************************************************)
(* C16: the headings of a parsed tree.                                     *)
(***************************************************************************)
\* the level of a heading token
Level(token) ==
    CASE token.t = "H1" -> 1
      [] token.t = "H2" -> 2
      [] token.t = "H3" -> 3

\* no heading below the node has a level less than or equal to its own
OwnsOnlyDeeper(node) ==
    \A m \in 1..Len(Preorder(node)) :
        LET below == Preorder(node)[m]
        IN  (below.path # <<>> /\ IsHeading(below.node.data))
                => Level(below.node.data) > Level(node.data)

\* C16 as claimed: in the tree parsed from any text, no heading of level <= L
\* is a descendant of a heading of level L, also when a heading is directly
\* followed by a heading of the same or a lower level number.
C16_HeadingsNest ==
    (op.kind = "new" /\ out = "ok") =>
        \A n \in 1..Len(Preorder(root)) :
            IsHeading(Preorder(root)[n].node.data) => OwnsOnlyDeeper(Preorder(root)[n].node)

(***************************************************************************)
(* C17: the lists of a tree.                                               *)
(***************************************************************************)
\* the children of a node that is no list are no items, a list has an item,
\* and no two lists are next to each other
ListsGrouped(node) ==
    /\ node.data # UnorderedList =>
          \A i \in 1..Len(node.children) : node.children[i].data.t # "ListItem"
    /\ node.data = UnorderedList => node.children # <<>>
    /\ \A i \in 1..(Len(node.children) - 1) :
          ~(node.children[i].data = UnorderedList
              /\ node.children[i + 1].data = UnorderedList)

\* the lists of the node and of every node below it are grouped
RECURSIVE ListsGroupedBelow(_)
ListsGroupedBelow(node) ==
    /\ ListsGrouped(node)
    /\ \A i \in 1..Len(node.children) : ListsGroupedBelow(node.children[i])

\* a list below the node, or the node, satisfies the test: it ends with the
\* item, or it is the list given
RECURSIVE HasList(_, _, _)
HasList(node, kind, arg) ==
    \/ /\ node.data = UnorderedList
       /\ IF kind = "ends_with"
          THEN /\ Len(node.children) >= 2
               /\ node.children[Len(node.children)] = FromToken(ListItem(arg, 0))
          ELSE node = arg
    \/ \E i \in 1..Len(node.children) : HasList(node.children[i], kind, arg)

C23_ReferencesAtRoot ==
    (op.kind = "new" /\ out = "ok") =>
        LET entries == Preorder(root)
        IN  \A n \in 1..Len(entries) :
                entries[n].node.data.t = "Reference" => Len(entries[n].path) = 1

(***************************************************************************)
(* C25: the category headings of the Unreleased section.                   *)
(***************************************************************************)
\* the texts of the level-3 headings among the children of a node
CategoriesOf(node) ==
    LET hs == SelectSeq(node.children, LAMBDA c : c.data.t = "H3")
    IN  [i \in 1..Len(hs) |-> hs[i].data.text]

\* the Unreleased node of a tree that has one
UnreleasedOf(tree) == NodeAt(tree, UnreleasedPaths(tree, NoScope)[1])

\* C25 as claimed: after any sequence of add_item calls the Unreleased
\* section never holds two level-3 headings whose texts differ only by
\* case, a heading that was there keeps its text, and a category of the
\* same name under a dated release is never the target: the dated sections
\* are as they were.
C25_CategoryMatchedUnderUnreleased ==
    (op.kind = "add" /\ out = "ok") =>
        LET after == CategoriesOf(UnreleasedOf(root))
            before == IF UnreleasedPaths(pre, NoScope) = <<>> THEN <<>>
                      ELSE CategoriesOf(UnreleasedOf(pre))
        IN  /\ \A i, j \in 1..Len(after) :
                  EqIgnoreCase(after[i], after[j]) => i = j
            /\ Len(before) <= Len(after)
            /\ SubSeq(after, 1, Len(before)) = before
            /\ \A i \in 1..Len(ReleasedPaths(pre, NoScope)) :
                  NodeAt(pre, ReleasedPaths(pre, NoScope)[i]) \in NodesOf(root)

(***************************************************************************)
(* C26: list.                                                              *)
(***************************************************************************)
\* the line of a reference: the label in a column of 15 characters, the link
LineOf(token) ==
    LET gap == IF Len(token.name) < 15 THEN 15 - Len(token.name) ELSE 0
    IN  <<"-", " ">> \o token.name \o [i \in 1..gap |-> " "] \o <<" ">> \o token.link

\* the lines of the first n references of the tree, in pre-order
RECURSIVE FirstLines(_, _)
FirstLines(tokens, n) ==
    IF n = 0 THEN <<>>
    ELSE IF n = 1 THEN LineOf(tokens[1])
    ELSE FirstLines(tokens, n - 1) \o <<"\n">> \o LineOf(tokens[n])

DatedPaths(tree, version) ==
    PathsOf(SelectSeq(Preorder(tree),
                      LAMBDA e : e.node.data = H2(ReleasedHeading(version, Today))))

\* the call before the last one was a release that has dated the Unreleased
\* section: pre, the tree it left, holds the section dated with its version
\* and the fresh Unreleased section
AfterRelease ==
    /\ Len(hist) >= 1
    /\ LET release == IF op.kind = "contents" THEN hist[Len(hist)]
                      ELSE hist[Len(hist) - 1]
       IN  /\ release.kind = "release"
           /\ DatedPaths(pre, release.version) # <<>>
           /\ Node(H2(UnreleasedHeading(NoScope)), <<PlaceholderList>>) \in NodesOf(pre)

\* C29 as claimed: after release(v) and then add_item(section, text), the
\* item is under the fresh Unreleased section, whose placeholder list is
\* gone, the section dated v is as the release left it and so are all the
\* references; and the resolver with an absent selector returns the body of
\* v right after the release.
C29_ReleaseThenAdd ==
    /\ (op.kind = "add" /\ Len(hist) >= 2 /\ AfterRelease) =>
          LET v == hist[Len(hist) - 1].version
          IN  /\ out = "ok"
              /\ Node(H2(UnreleasedHeading(NoScope)),
                      << Node(H3(op.section_name),
                              << Node(UnorderedList, <<FromToken(ListItem(op.item, 0))>>) >>) >>)
                    \in NodesOf(root)
              /\ NodeAt(pre, DatedPaths(pre, v)[1]) \in NodesOf(root)
              /\ AllReferences(root) = AllReferences(pre)
    /\ (op.kind = "contents" /\ ~op.name.is_some /\ ~op.scope.is_some /\ AfterRelease) =>
          LET v == hist[Len(hist)].version
          IN  res = Node(None, NodeAt(pre, DatedPaths(pre, v)[1]).children)

\* C30: the text a version is rendered to parses back to that version, with
\* the same major, minor, patch and pre-release, also when the pre-release
\* holds hyphens or dots, both through from_str and through change_to; and
\* change_to with a text that is no keyword and does not parse returns the
\* error of the parse and leaves the version as it was.
C30_RenderParseRoundTrip ==
    /\ (op.kind = "from_str" /\ input.text = SemVerToString(package_version))
         => res = Ok(package_version)
    /\ (op.kind = "change_to" /\ input.text = SemVerToString(op.self))
         => /\ res = Ok(op.self)
            /\ package_version = op.self
    /\ (op.kind = "change_to" /\ input.text \notin Keywords /\ ~ParseSemVer(input.text).is_ok)
         => /\ out = "err"
            /\ res = ParseSemVer(input.text)
            /\ ~res.is_ok
            /\ package_version = op.self

\* a version with a hyphen in its pre-release was rendered and parsed
C30_Witness ==
    /\ op.kind = "from_str"
    /\ package_version.pre_release = Name(<<"r", "c", "-", "1">>)
    /\ input.text = SemVerToString(package_version)
    /\ res = Ok(package_version)

====
